---- MODULE Spec2Model ----
(***************************************************************************)
(* Outpost: royalty-enforced NFT trading on Radix.                         *)
(*                                                                         *)
(*   RoyalNFTs   (src/src/royalty_standalone_component.rs)  royalty policy *)
(*   OpenTrader  (src/src/outpost_account.rs)               escrow account *)
(*   OpenHub     (src/src/outpost_factory.rs)               account factory*)
(*                                                                         *)
(* One action is one method call.  The ledger runs a transaction as a      *)
(* sequence of calls over a worktop; a transaction commits only when its   *)
(* worktop holds no restricted resource (EndTx), and a failing call aborts *)
(* it, so a failing call is a disabled action here.                        *)
(***************************************************************************)
EXTENDS Integers, Sequences, FiniteSets, TLC

(***************************************************************************)
(* Bounds of the model.                                                    *)
(***************************************************************************)
\* Decimal places of the fixed-point Decimal (18 on the ledger).
DecimalScale == 2
\* Largest payment, in whole units, offered to pay_royalty in SpecPay.
MaxPayUnits == 1
\* Number of transactions of a behaviour.
MaxTx == 2
\* Number of purchases of a behaviour.
MaxCalls == 4
\* Longest item list handed to a multi purchase or a multi list.
MaxBatch == 2
\* Number of direct calls of pay_royalty / pay_royalty_basic in SpecPay.
MaxPays == 1
\* Number of purchases of a behaviour of SpecPurchase.
MaxPurchases == 2

(***************************************************************************)
(* Decimal arithmetic.                                                     *)
(***************************************************************************)
ONE == 10^DecimalScale

\* Option<T>: None, or Some(v).
None == << >>
Some(v) == << v >>
IsSome(o) == o # None
Unwrap(o) == o[1]

TruncDiv(a, b) == IF a >= 0 THEN a \div b ELSE -((-a) \div b)

\* A multiplication that rounds the last decimal place away from zero.
checked_mul_away(a, b) ==
    IF (a * b) % ONE = 0 THEN TruncDiv(a * b, ONE)
    ELSE IF a * b > 0 THEN TruncDiv(a * b, ONE) + 1 ELSE TruncDiv(a * b, ONE) - 1

\* Decimal::checked_mul: the product, cut toward zero to DecimalScale places.
checked_mul(a, b) == TruncDiv(a * b, ONE)

Currencies == {"XRD", "TKN"}

\* XRD carries every decimal place; TKN is a whole-unit resource.
Divisibility(cur) == IF cur = "XRD" THEN DecimalScale ELSE 0

Unit(cur) == 10^(DecimalScale - Divisibility(cur))

\* WithdrawStrategy::Rounded(RoundingMode::ToZero) at the resource's divisibility.
RoundToZero(amount, cur) == TruncDiv(amount, Unit(cur)) * Unit(cur)

\* A take that hands out the rounded amount whatever the bucket holds.
take_advanced_unbounded(balance, amount, cur) == Some(RoundToZero(amount, cur))

\* Bucket::take_advanced(amount, Rounded(ToZero)) on a bucket holding `balance`:
\* the amount taken, or None when the take fails (negative or more than held).
take_advanced(balance, amount, cur) ==
    LET taken == RoundToZero(amount, cur)
    IN  IF taken < 0 \/ taken > balance THEN None ELSE Some(taken)

(***************************************************************************)
(* The world: two escrow accounts of one hub, their owners' holding        *)
(* accounts, one royalty-enforced collection and one plain collection.     *)
(***************************************************************************)
Escrows == {"A", "B"}
Holders == {"accA", "accB"}
my_account(a) == IF a = "A" THEN "accA" ELSE "accB"
Worktop == "worktop"

RoyalClass == "royal"
PlainClass == "plain"
Classes == {RoyalClass, PlainClass}

R1 == [class |-> RoyalClass, id |-> 1]
R2 == [class |-> RoyalClass, id |-> 2]
P1 == [class |-> PlainClass, id |-> 1]
Items == {R1, R2, P1}

\* Credential resources a buyer may present as `permission`.
Credentials == {"mkt", "priv"}

Restricted == "restricted"
AllowAll == "allow_all"

VARIABLES
    \* RoyalNFTs component of RoyalClass
    royalty_config,           \* RoyaltyConfig
    royalty_vaults,           \* [Currencies -> balance]
    \* NFT resources
    depositable,              \* [Classes -> rule]: the resource's depositor rule
    loc,                      \* [Items -> Holders \cup Escrows \cup {Worktop}]
    \* credential resources
    marketplace_fee,          \* [Credentials -> rate or None]: "marketplace_fee" metadata
    \* OpenTrader components
    listings,                 \* [Escrows -> [Items -> Listing or None]]
    transactions,             \* [Escrows -> set of transaction hashes]
    latest_transaction,       \* [Escrows -> None or (class, id, recipient)]
    latest_bulk_transaction,  \* [Escrows -> None or (recipient, nfgids)]
    transient_tokens,         \* [Escrows -> amount in the vault]
    revenue,                  \* [Escrows -> [Currencies -> balance stored for my_account]]
    \* the ledger
    txhash,                   \* Runtime::transaction_hash() of the running transaction
    worktop_tokens,           \* transient tokens on the worktop, each tagged with its purchase
    auth_zone,                \* badges whose proofs the running transaction has presented
    \* GenericMarketplace component (the router)
    fee_vaults,               \* [Currencies -> balance or None]
    routing,                  \* the router call in progress: its position and its arguments
    \* history
    pending,                  \* [Escrows -> None or the purchase not yet cleared on it]
    ncalls,                   \* money-moving calls so far
    royal_listed,             \* escrows royal_list / royal_multi_list ran on in this transaction
    last                      \* the call that produced this state

royaltyVars == <<royalty_config, royalty_vaults>>
resourceVars == <<depositable, loc, marketplace_fee>>
traderVars == <<listings, transactions, latest_transaction, latest_bulk_transaction,
                transient_tokens, revenue>>
ledgerVars == <<txhash, worktop_tokens>>
authVars == <<auth_zone>>
routerVars == <<fee_vaults, routing>>
historyVars == <<pending, ncalls, royal_listed, last>>
vars == <<royaltyVars, resourceVars, traderVars, ledgerVars, authVars, routerVars,
          historyVars>>

NoTokens == << >>

\* No router call is in progress.
Idle == [phase |-> "idle"]

\* The record kept in `last`.
Call(op, acct, permission, cur, amount, royalty, fee, proceeds, fee_bucket, toks, nfgids) ==
    [op |-> op, acct |-> acct, permission |-> permission, cur |-> cur, amount |-> amount, royalty |-> royalty,
     fee |-> fee, proceeds |-> proceeds, fee_bucket |-> fee_bucket, toks |-> toks,
     nfgids |-> nfgids]

Plain(op, acct) == Call(op, acct, "-", "-", 0, 0, 0, 0, FALSE, NoTokens, << >>)

\* Calls that move neither money nor transient tokens leave this record.
Other == Plain("-", "-")

(***************************************************************************)
(* RoyalNFTs: the royalty component of RoyalClass.                         *)
(***************************************************************************)
\* start_royalty_nft: the configuration a new component starts with.
start_royalty_nft(royalty_percent, maximum_royalty_percent) ==
    [restricted_movement |-> TRUE,
     royalty_percent |-> royalty_percent,
     maximum_royalty_percent |-> maximum_royalty_percent,
     limit_buyers |-> FALSE,
     limit_currencies |-> FALSE,
     limit_dapps |-> FALSE,
     limit_private_trade |-> FALSE,
     minimum_royalties |-> FALSE,
     permitted_currencies |-> {},
     minimum_royalty_amounts |-> [c \in Currencies |-> None],
     permissioned_dapps |-> {},
     permissioned_buyers |-> {},
     royalty_configuration_locked |-> FALSE]

\* The two assertions of start_royalty_nft.
start_royalty_nft_accepts(royalty_percent, maximum_royalty_percent) ==
    /\ royalty_percent <= ONE
    /\ royalty_percent <= maximum_royalty_percent

\* The royalty a payment owes: the product, taken from the payment bucket.
royalty_of(payment_amount, currency) ==
    take_advanced(payment_amount,
                  checked_mul(payment_amount, royalty_config.royalty_percent),
                  currency)

\* A minimum-royalty assertion that asks nothing of a currency without entry.
minimum_royalty_met_if_set(royalty, currency) ==
    (royalty_config.limit_currencies /\ royalty_config.minimum_royalties
        /\ IsSome(royalty_config.minimum_royalty_amounts[currency]))
        => royalty >= Unwrap(royalty_config.minimum_royalty_amounts[currency])

\* The minimum-royalty assertion (the unwrap of a missing entry panics).
minimum_royalty_met(royalty, currency) ==
    (royalty_config.limit_currencies /\ royalty_config.minimum_royalties)
        => /\ IsSome(royalty_config.minimum_royalty_amounts[currency])
           /\ royalty >= Unwrap(royalty_config.minimum_royalty_amounts[currency])

\* A pay_royalty that lets every buyer through.
pay_royalty_any_buyer(nft, local_ids, payment_amount, currency, buyer, account) ==
    LET royalty == royalty_of(payment_amount, currency)
    IN  IF nft # RoyalClass THEN None
        ELSE IF royalty_config.limit_currencies
                /\ currency \notin royalty_config.permitted_currencies THEN None
        ELSE IF royalty = None THEN None
        ELSE IF ~minimum_royalty_met(Unwrap(royalty), currency) THEN None
        ELSE Some([royalty |-> Unwrap(royalty),
                   remainder |-> payment_amount - Unwrap(royalty)])

\* pay_royalty: None when the call panics, else the royalty kept and the
\* remainder handed back.
pay_royalty(nft, local_ids, payment_amount, currency, buyer, account) ==
    LET royalty == royalty_of(payment_amount, currency)
    IN  IF nft # RoyalClass THEN None
        ELSE IF royalty_config.limit_buyers
                /\ buyer \notin royalty_config.permissioned_buyers THEN None
        ELSE IF royalty_config.limit_currencies
                /\ currency \notin royalty_config.permitted_currencies THEN None
        ELSE IF royalty = None THEN None
        ELSE IF ~minimum_royalty_met(Unwrap(royalty), currency) THEN None
        ELSE Some([royalty |-> Unwrap(royalty),
                   remainder |-> payment_amount - Unwrap(royalty)])

\* pay_royalty_basic: the same steps, without the id set and the account.
pay_royalty_basic(nft, payment_amount, currency, buyer) ==
    LET royalty == royalty_of(payment_amount, currency)
    IN  IF nft # RoyalClass THEN None
        ELSE IF royalty_config.limit_buyers
                /\ buyer \notin royalty_config.permissioned_buyers THEN None
        ELSE IF royalty_config.limit_currencies
                /\ currency \notin royalty_config.permitted_currencies THEN None
        ELSE IF royalty = None THEN None
        ELSE IF ~minimum_royalty_met(Unwrap(royalty), currency) THEN None
        ELSE Some([royalty |-> Unwrap(royalty),
                   remainder |-> payment_amount - Unwrap(royalty)])

\* royalty_vaults after `royalty` is put into the currency's vault (the vault
\* is created on first use).
royalty_vault_put(currency, royalty) ==
    [royalty_vaults EXCEPT ![currency] =
        IF @ = None THEN Some(royalty) ELSE Some(Unwrap(@) + royalty)]

Balance(vault) == IF vault = None THEN 0 ELSE Unwrap(vault)

(***************************************************************************)
(* OpenTrader: the escrow account.                                         *)
(***************************************************************************)
TransientToken == "transient_token"

\* The hub mints every account's token from one resource manager
\* (create_outpost: self.transient_token_manager.mint(1)).
transient_token_address(a) == TransientToken

\* "royalty_component" metadata of an NFT resource.
royalty_component(class) == IF class = RoyalClass THEN Some("RoyalNFTs") ELSE None

Listing(price, currency, permissions) ==
    [secondary_seller_permissions |-> permissions, currency |-> currency, price |-> price]

Nfgid(class, id) == [class |-> class, id |-> id]

\* The NFTs in nft_vaults[class] of account a.
nft_vault(a, class) == {x \in Items : loc[x] = a /\ x.class = class}

\* Sequences of at most MaxBatch elements of S.
Batches(S) == UNION {[1..n -> S] : n \in 0..MaxBatch}

Range(f) == {f[i] : i \in DOMAIN f}

\* The price of the first listing only.
SumPricesFirst(ls) == IF ls = << >> THEN 0 ELSE Head(ls).price

RECURSIVE SumPrices(_)
SumPrices(ls) == IF ls = << >> THEN 0 ELSE Head(ls).price + SumPrices(Tail(ls))

\* Resources a holding account or the worktop may be left with at the end of a
\* transaction: every NFT deposited, every transient token returned.
WorktopEmpty == (\A x \in Items : loc[x] # Worktop) /\ worktop_tokens = << >>

\* ---- the ledger ----
\* An account owner withdraws an NFT to the worktop.
Withdraw(h, x) ==
    /\ loc[x] = h
    /\ loc' = [loc EXCEPT ![x] = Worktop]
    /\ last' = Other
    /\ UNCHANGED <<royaltyVars, depositable, marketplace_fee, traderVars, ledgerVars,
                   pending, ncalls, royal_listed, auth_zone, routerVars>>

\* Account deposit: the resource's depositor rule decides.
Deposit(h, x) ==
    /\ loc[x] = Worktop
    /\ depositable[x.class] = AllowAll
    /\ loc' = [loc EXCEPT ![x] = h]
    /\ last' = Other
    /\ UNCHANGED <<royaltyVars, depositable, marketplace_fee, traderVars, ledgerVars,
                   pending, ncalls, royal_listed, auth_zone, routerVars>>

\* The transaction commits and the next one starts.
EndTx ==
    /\ WorktopEmpty
    /\ txhash < MaxTx
    /\ txhash' = txhash + 1
    /\ auth_zone' = {}
    /\ routing' = Idle
    /\ royal_listed' = {}
    /\ last' = Other
    /\ UNCHANGED <<royaltyVars, resourceVars, traderVars, worktop_tokens, pending, ncalls, fee_vaults>>

\* ---- listing ----
\* A royal_list that does not record the transaction hash.
royal_list_unrecorded(a, x, price, currency, permissions) ==
    /\ price > 0
    /\ loc[x] = Worktop
    /\ listings' = [listings EXCEPT ![a][x] = Some(Listing(price, currency, permissions))]
    /\ loc' = [loc EXCEPT ![x] = a]
    /\ royal_listed' = royal_listed \cup {a}
    /\ last' = Other
    /\ UNCHANGED <<royaltyVars, depositable, marketplace_fee, transactions, latest_transaction,
                   latest_bulk_transaction, transient_tokens, revenue, ledgerVars,
                   pending, ncalls, auth_zone, routerVars>>

royal_list(a, x, price, currency, permissions) ==
    /\ price > 0
    /\ loc[x] = Worktop
    /\ transactions' = [transactions EXCEPT ![a] = @ \cup {txhash}]
    /\ listings' = [listings EXCEPT ![a][x] = Some(Listing(price, currency, permissions))]
    /\ loc' = [loc EXCEPT ![x] = a]
    /\ royal_listed' = royal_listed \cup {a}
    /\ last' = Other
    /\ UNCHANGED <<royaltyVars, depositable, marketplace_fee, latest_transaction,
                   latest_bulk_transaction, transient_tokens, revenue, ledgerVars,
                   pending, ncalls, auth_zone, routerVars>>

list(a, x, currency, price, permissions) ==
    /\ loc[x] = Worktop
    /\ price > 0
    /\ depositable[x.class] = AllowAll
    /\ loc' = [loc EXCEPT ![x] = a]
    /\ listings' = [listings EXCEPT ![a][x] = Some(Listing(price, currency, permissions))]
    /\ last' = Other
    /\ UNCHANGED <<royaltyVars, depositable, marketplace_fee, transactions,
                   latest_transaction, latest_bulk_transaction, transient_tokens, revenue,
                   ledgerVars, pending, ncalls, royal_listed, auth_zone, routerVars>>

\* listings of account a after inserting every (nfgid, price) of `entries` in order.
RECURSIVE insert_listings(_, _, _, _)
insert_listings(ls, entries, currency, permissions) ==
    IF entries = << >> THEN ls
    ELSE insert_listings(
            [ls EXCEPT ![Head(entries).nfgid] =
                Some(Listing(Head(entries).price, currency, permissions))],
            Tail(entries), currency, permissions)

\* The assertions royal_multi_list and multi_list share.
multi_list_accepts(entries, items) ==
    /\ items # {}
    /\ \A x \in items : loc[x] = Worktop
    /\ \A x, y \in items : x.class = y.class
    /\ \A i \in DOMAIN entries :
          /\ \A x \in items : entries[i].nfgid.class = x.class
          /\ entries[i].price > 0
    /\ {entries[i].nfgid.id : i \in DOMAIN entries} \subseteq {x.id : x \in items}

royal_multi_list(a, entries, currency, permissions, items) ==
    /\ multi_list_accepts(entries, items)
    /\ transactions' = [transactions EXCEPT ![a] = @ \cup {txhash}]
    /\ listings' = [listings EXCEPT ![a] = insert_listings(@, entries, currency, permissions)]
    /\ loc' = [x \in Items |-> IF x \in items THEN a ELSE loc[x]]
    /\ royal_listed' = royal_listed \cup {a}
    /\ last' = Other
    /\ UNCHANGED <<royaltyVars, depositable, marketplace_fee, latest_transaction,
                   latest_bulk_transaction, transient_tokens, revenue, ledgerVars,
                   pending, ncalls, auth_zone, routerVars>>

multi_list(a, entries, currency, permissions, items) ==
    /\ multi_list_accepts(entries, items)
    /\ \A x \in items : depositable[x.class] = AllowAll
    /\ listings' = [listings EXCEPT ![a] = insert_listings(@, entries, currency, permissions)]
    /\ loc' = [x \in Items |-> IF x \in items THEN a ELSE loc[x]]
    /\ last' = Other
    /\ UNCHANGED <<royaltyVars, depositable, marketplace_fee, transactions,
                   latest_transaction, latest_bulk_transaction, transient_tokens, revenue,
                   ledgerVars, pending, ncalls, royal_listed, auth_zone, routerVars>>

\* ---- cancelling ----
cancel_listing(a, x) ==
    /\ loc[x] = a
    /\ IsSome(listings[a][x])
    /\ listings' = [listings EXCEPT ![a][x] = None]
    /\ loc' = [loc EXCEPT ![x] = Worktop]
    /\ last' = Other
    /\ UNCHANGED <<royaltyVars, depositable, marketplace_fee, transactions,
                   latest_transaction, latest_bulk_transaction, transient_tokens, revenue,
                   ledgerVars, pending, ncalls, royal_listed, auth_zone, routerVars>>

cancel_royal_listing(a, x) ==
    /\ loc[x] = a
    /\ IsSome(listings[a][x])
    /\ listings' = [listings EXCEPT ![a][x] = None]
    /\ loc' = [loc EXCEPT ![x] = my_account(a)]
    /\ last' = Other
    /\ UNCHANGED <<royaltyVars, depositable, marketplace_fee, transactions,
                   latest_transaction, latest_bulk_transaction, transient_tokens, revenue,
                   ledgerVars, pending, ncalls, royal_listed, auth_zone, routerVars>>

\* same_owner_royal_transfer: the owner moves an NFT to another of their accounts.
same_owner_royal_transfer(a, x, recipient) ==
    /\ loc[x] = Worktop
    /\ loc' = [loc EXCEPT ![x] = recipient]
    /\ last' = Other
    /\ UNCHANGED <<royaltyVars, depositable, marketplace_fee, traderVars, ledgerVars,
                   pending, ncalls, royal_listed, auth_zone, routerVars>>

\* ---- purchases ----
\* A router that stores a returned fee bucket only in a vault it already has.
fee_vault_put_existing(currency, fee) ==
    [fee_vaults EXCEPT ![currency] = IF @ = None THEN Some(0) ELSE Some(Unwrap(@) + fee)]

\* The router puts a returned fee bucket into the fee vault of its resource,
\* creating the vault when there is none.
fee_vault_put(currency, fee) ==
    [fee_vaults EXCEPT ![currency] = Some((IF @ = None THEN 0 ELSE Unwrap(@)) + fee)]

\* A purchase returns to its caller: to the transaction manifest, or to the
\* router's loop, which requires a fee bucket of a non-royalty purchase
\* (pop().unwrap()), stores the fee and goes on to the next group.
ReturnToCaller(call) ==
    IF routing.phase # "running"
    THEN UNCHANGED <<fee_vaults, routing>>
    ELSE /\ call.acct \in routing.todo
         /\ routing.method = "multi_listing_purchase" => call.fee_bucket
         /\ fee_vaults' = IF call.fee_bucket THEN fee_vault_put(call.cur, call.fee)
                                              ELSE fee_vaults
         /\ routing' = [routing EXCEPT
                            !.todo = @ \ {call.acct},
                            !.full_payment = @ - call.amount,
                            !.calls = Append(@, [address |-> call.acct, method |-> call.op,
                                                 nfgids |-> call.nfgids,
                                                 payment |-> call.amount])]

\* A fee computed on what is left of the payment after the royalty.
marketplace_fee_on_remainder(permission, payment_amount) ==
    IF IsSome(marketplace_fee[permission])
    THEN checked_mul(payment_amount
                        - checked_mul(payment_amount, royalty_config.royalty_percent),
                     Unwrap(marketplace_fee[permission]))
    ELSE 0

\* The marketplace fee a purchase computes from the credential's metadata.
marketplace_fee_of(permission, payment_amount) ==
    IF IsSome(marketplace_fee[permission])
    THEN checked_mul(payment_amount, Unwrap(marketplace_fee[permission]))
    ELSE 0

\* account_locker.store(my_account, bucket, true): the seller's proceeds.
store_revenue(a, currency, amount) ==
    [revenue EXCEPT ![a][currency] = @ + amount]

\* What the purchase hands out with the NFTs: the tag of its transient token.
Settlement(a, items, recipient) == [acct |-> a, items |-> items, dest |-> recipient]

purchase_royal_listing(a, nfgid, payment_amount, payment_currency, permission, account_recipient) ==
    LET listing == Unwrap(listings[a][nfgid])
        fee == marketplace_fee_of(permission, payment_amount)
        paid == pay_royalty_basic(nfgid.class, payment_amount, payment_currency, permission)
        remainder_after_royalty == Unwrap(paid).remainder
        fee_taken == IF IsSome(marketplace_fee[permission])
                     THEN take_advanced(remainder_after_royalty, fee, payment_currency)
                     ELSE Some(0)
    IN  /\ ncalls < MaxCalls
        /\ IsSome(listings[a][nfgid])
        /\ permission \in listing.secondary_seller_permissions
        /\ payment_amount = listing.price
        /\ payment_currency = listing.currency
        /\ txhash \notin transactions[a]
        /\ nfgid \in nft_vault(a, nfgid.class)
        /\ IsSome(royalty_component(nfgid.class))
        /\ IsSome(paid)
        /\ IsSome(fee_taken)
        /\ transient_tokens[a] >= 1
        /\ latest_transaction' = [latest_transaction EXCEPT ![a] =
                Some([class |-> nfgid.class, id |-> nfgid.id, recipient |-> account_recipient])]
        /\ loc' = [loc EXCEPT ![nfgid] = Worktop]
        /\ royalty_vaults' = royalty_vault_put(payment_currency, Unwrap(paid).royalty)
        /\ revenue' = store_revenue(a, payment_currency,
                                    remainder_after_royalty - Unwrap(fee_taken))
        /\ depositable' = [depositable EXCEPT ![nfgid.class] = AllowAll]
        /\ listings' = [listings EXCEPT ![a][nfgid] = None]
        /\ transient_tokens' = [transient_tokens EXCEPT ![a] = @ - 1]
        /\ worktop_tokens' = Append(worktop_tokens, Settlement(a, {nfgid}, account_recipient))
        /\ pending' = [pending EXCEPT ![a] = Some(Settlement(a, {nfgid}, account_recipient))]
        /\ ncalls' = ncalls + 1
        /\ last' = Call("purchase_royal_listing", a, permission, payment_currency, payment_amount,
                        Unwrap(paid).royalty, Unwrap(fee_taken),
                        remainder_after_royalty - Unwrap(fee_taken),
                        IsSome(marketplace_fee[permission]), NoTokens, << nfgid >>)
        /\ ReturnToCaller(last')
        /\ UNCHANGED <<royalty_config, marketplace_fee, transactions,
                       latest_bulk_transaction, txhash, royal_listed, auth_zone>>

purchase_multi_royal_listings(a, nfgids, payment_amount, payment_currency, account_recipient, permission) ==
    LET found == [i \in DOMAIN nfgids |-> Unwrap(listings[a][nfgids[i]])]
        first_currency == found[1].currency
        total_price == SumPrices(found)
        fee == marketplace_fee_of(permission, payment_amount)
        nft_address == nfgids[1].class
        local_id_index_set == {nfgids[i].id : i \in DOMAIN nfgids}
        taken == {Nfgid(nft_address, id) : id \in local_id_index_set}
        paid == pay_royalty(nft_address, local_id_index_set, payment_amount,
                            payment_currency, permission, account_recipient)
        remainder_after_royalty == Unwrap(paid).remainder
        fee_taken == IF IsSome(marketplace_fee[permission])
                     THEN take_advanced(remainder_after_royalty, fee, payment_currency)
                     ELSE Some(0)
    IN  /\ ncalls < MaxCalls
        /\ nfgids # << >>
        /\ \A i \in DOMAIN nfgids :
              /\ IsSome(listings[a][nfgids[i]])
              /\ permission \in found[i].secondary_seller_permissions
        /\ \A i \in DOMAIN nfgids : found[i].currency = first_currency
        /\ payment_currency = first_currency
        /\ payment_amount = total_price
        /\ txhash \notin transactions[a]
        /\ taken \subseteq nft_vault(a, nft_address)
        /\ IsSome(royalty_component(nft_address))
        /\ IsSome(paid)
        /\ IsSome(fee_taken)
        /\ transient_tokens[a] >= 1
        /\ latest_bulk_transaction' = [latest_bulk_transaction EXCEPT ![a] =
                Some([recipient |-> account_recipient, nfgids |-> nfgids])]
        /\ loc' = [x \in Items |-> IF x \in taken THEN Worktop ELSE loc[x]]
        /\ listings' = [listings EXCEPT ![a] =
                [x \in Items |-> IF x \in Range(nfgids) THEN None ELSE @[x]]]
        /\ depositable' = [depositable EXCEPT ![nft_address] = AllowAll]
        /\ royalty_vaults' = royalty_vault_put(payment_currency, Unwrap(paid).royalty)
        /\ revenue' = store_revenue(a, payment_currency,
                                    remainder_after_royalty - Unwrap(fee_taken))
        /\ transient_tokens' = [transient_tokens EXCEPT ![a] = @ - 1]
        /\ worktop_tokens' = Append(worktop_tokens, Settlement(a, taken, account_recipient))
        /\ pending' = [pending EXCEPT ![a] = Some(Settlement(a, taken, account_recipient))]
        /\ ncalls' = ncalls + 1
        /\ last' = Call("purchase_multi_royal_listings", a, permission, payment_currency, payment_amount,
                        Unwrap(paid).royalty, Unwrap(fee_taken),
                        remainder_after_royalty - Unwrap(fee_taken),
                        IsSome(marketplace_fee[permission]), NoTokens, nfgids)
        /\ ReturnToCaller(last')
        /\ UNCHANGED <<royalty_config, marketplace_fee, transactions,
                       latest_transaction, txhash, royal_listed, auth_zone>>

\* A purchase_listing that leaves the listing in place.
purchase_listing_keeps(a, nfgid, payment_amount, payment_currency, permission) ==
    LET listing == Unwrap(listings[a][nfgid])
        fee == marketplace_fee_of(permission, payment_amount)
        fee_taken == IF fee > 0
                     THEN take_advanced(payment_amount, fee, payment_currency)
                     ELSE Some(0)
    IN  /\ ncalls < MaxCalls
        /\ IsSome(listings[a][nfgid])
        /\ permission \in listing.secondary_seller_permissions
        /\ payment_amount = listing.price
        /\ payment_currency = listing.currency
        /\ nfgid \in nft_vault(a, nfgid.class)
        /\ IsSome(fee_taken)
        /\ loc' = [loc EXCEPT ![nfgid] = Worktop]
        /\ revenue' = store_revenue(a, payment_currency, payment_amount - Unwrap(fee_taken))
        /\ ncalls' = ncalls + 1
        /\ last' = Call("purchase_listing", a, permission, payment_currency, payment_amount, 0,
                        Unwrap(fee_taken), payment_amount - Unwrap(fee_taken),
                        fee > 0, NoTokens, << nfgid >>)
        /\ UNCHANGED <<royaltyVars, depositable, marketplace_fee, listings, transactions,
                       latest_transaction, latest_bulk_transaction, transient_tokens,
                       ledgerVars, pending, royal_listed, auth_zone, routerVars>>

purchase_listing(a, nfgid, payment_amount, payment_currency, permission) ==
    LET listing == Unwrap(listings[a][nfgid])
        fee == marketplace_fee_of(permission, payment_amount)
        fee_taken == IF fee > 0
                     THEN take_advanced(payment_amount, fee, payment_currency)
                     ELSE Some(0)
    IN  /\ ncalls < MaxCalls
        /\ IsSome(listings[a][nfgid])
        /\ permission \in listing.secondary_seller_permissions
        /\ payment_amount = listing.price
        /\ payment_currency = listing.currency
        /\ nfgid \in nft_vault(a, nfgid.class)
        /\ IsSome(fee_taken)
        /\ loc' = [loc EXCEPT ![nfgid] = Worktop]
        /\ revenue' = store_revenue(a, payment_currency, payment_amount - Unwrap(fee_taken))
        /\ listings' = [listings EXCEPT ![a][nfgid] = None]
        /\ ncalls' = ncalls + 1
        /\ last' = Call("purchase_listing", a, permission, payment_currency, payment_amount, 0,
                        Unwrap(fee_taken), payment_amount - Unwrap(fee_taken),
                        fee > 0, NoTokens, << nfgid >>)
        /\ UNCHANGED <<royaltyVars, depositable, marketplace_fee, transactions,
                       latest_transaction, latest_bulk_transaction, transient_tokens,
                       ledgerVars, pending, royal_listed, auth_zone, routerVars>>

\* No NFT is named twice: the second take_non_fungible of one id panics.
NoRepeat(nfgids) == \A i, j \in DOMAIN nfgids : nfgids[i] = nfgids[j] => i = j

multi_purchase_listing(a, nfgids, payment_amount, payment_currency, permission) ==
    LET found == [i \in DOMAIN nfgids |-> Unwrap(listings[a][nfgids[i]])]
        first_currency == found[1].currency
        total_price == SumPrices(found)
        fee == marketplace_fee_of(permission, payment_amount)
        fee_taken == IF fee > 0
                     THEN take_advanced(payment_amount, fee, payment_currency)
                     ELSE Some(0)
    IN  /\ ncalls < MaxCalls
        /\ nfgids # << >>
        /\ \A i \in DOMAIN nfgids :
              /\ IsSome(listings[a][nfgids[i]])
              /\ permission \in found[i].secondary_seller_permissions
        /\ \A i \in DOMAIN nfgids : found[i].currency = first_currency
        /\ payment_currency = first_currency
        /\ payment_amount = total_price
        /\ IsSome(fee_taken)
        /\ \A i \in DOMAIN nfgids : nfgids[i] \in nft_vault(a, nfgids[i].class)
        /\ NoRepeat(nfgids)
        /\ loc' = [x \in Items |-> IF x \in Range(nfgids) THEN Worktop ELSE loc[x]]
        /\ listings' = [listings EXCEPT ![a] =
                [x \in Items |-> IF x \in Range(nfgids) THEN None ELSE @[x]]]
        /\ revenue' = store_revenue(a, payment_currency, payment_amount - Unwrap(fee_taken))
        /\ ncalls' = ncalls + 1
        /\ last' = Call("multi_purchase_listing", a, permission, payment_currency, payment_amount, 0,
                        Unwrap(fee_taken), payment_amount - Unwrap(fee_taken),
                        fee > 0, NoTokens, nfgids)
        /\ ReturnToCaller(last')
        /\ UNCHANGED <<royaltyVars, depositable, marketplace_fee, transactions,
                       latest_transaction, latest_bulk_transaction, transient_tokens,
                       ledgerVars, pending, royal_listed, auth_zone>>

\* ---- closing a settlement ----
\* The tokens of the worktop at the positions S, and the worktop without them.
RECURSIVE Pick(_, _, _)
Pick(toks, S, i) ==
    IF i > Len(toks) THEN << >>
    ELSE (IF i \in S THEN << toks[i] >> ELSE << >>) \o Pick(toks, S, i + 1)

Bucket(S) == Pick(worktop_tokens, S, 1)
WithoutBucket(S) == Pick(worktop_tokens, DOMAIN worktop_tokens \ S, 1)

\* A bucket handed to cleared / multi_cleared: transient tokens taken from the
\* worktop (possibly none), or a bucket of another resource.
TokenBuckets == [resource : {TransientToken}, toks : SUBSET DOMAIN worktop_tokens]
                    \cup {[resource |-> "XRD", toks |-> {}]}

cleared(a, transient_token) ==
    LET amount == Cardinality(transient_token.toks)
        latest == Unwrap(latest_transaction[a])
    IN  /\ amount = 1
        /\ transient_token.resource = transient_token_address(a)
        /\ IsSome(latest_transaction[a])
        /\ loc[Nfgid(latest.class, latest.id)] = latest.recipient
        /\ IsSome(royalty_component(latest.class))
        /\ transient_tokens' = [transient_tokens EXCEPT ![a] = @ + amount]
        /\ worktop_tokens' = WithoutBucket(transient_token.toks)
        /\ depositable' = [depositable EXCEPT ![latest.class] = Restricted]
        /\ pending' = [pending EXCEPT ![a] = None]
        /\ last' = Call("cleared", a, "-", "-", 0, 0, 0, 0, FALSE, Bucket(transient_token.toks),
                        << >>)
        /\ UNCHANGED <<royaltyVars, loc, marketplace_fee, listings, transactions,
                       latest_transaction, latest_bulk_transaction, revenue, txhash, ncalls, royal_listed, auth_zone, routerVars>>

multi_cleared(a, transient_token) ==
    LET amount == Cardinality(transient_token.toks)
        latest == Unwrap(latest_bulk_transaction[a])
        nft_address == latest.nfgids[1].class
        local_id_index_set == {latest.nfgids[i].id : i \in DOMAIN latest.nfgids}
    IN  /\ transient_token.resource = transient_token_address(a)
        /\ IsSome(latest_bulk_transaction[a])
        /\ \A id \in local_id_index_set : loc[Nfgid(nft_address, id)] = latest.recipient
        /\ IsSome(royalty_component(nft_address))
        /\ transient_tokens' = [transient_tokens EXCEPT ![a] = @ + amount]
        /\ worktop_tokens' = WithoutBucket(transient_token.toks)
        /\ depositable' = [depositable EXCEPT ![nft_address] = Restricted]
        /\ pending' = [pending EXCEPT ![a] = None]
        /\ last' = Call("multi_cleared", a, "-", "-", 0, 0, 0, 0, FALSE,
                        Bucket(transient_token.toks), << >>)
        /\ UNCHANGED <<royaltyVars, loc, marketplace_fee, listings, transactions,
                       latest_transaction, latest_bulk_transaction, revenue, txhash, ncalls, royal_listed, auth_zone, routerVars>>

(***************************************************************************)
(* The state after construction: the royalty component started with the    *)
(* given rate, the credential "mkt" carrying the given "marketplace_fee"   *)
(* metadata, every account created by the hub with one transient token.    *)
(***************************************************************************)
InitPolicy(royalty_percent, maximum_royalty_percent, mkt_fee, vaults) ==
    /\ start_royalty_nft_accepts(royalty_percent, maximum_royalty_percent)
    /\ royalty_config = start_royalty_nft(royalty_percent, maximum_royalty_percent)
    /\ royalty_vaults = vaults
    /\ depositable = [c \in Classes |-> IF c = RoyalClass THEN Restricted ELSE AllowAll]
    /\ loc = [x \in Items |-> "accA"]
    /\ marketplace_fee = [p \in Credentials |-> IF p = "mkt" THEN mkt_fee ELSE None]
    /\ listings = [a \in Escrows |-> [x \in Items |-> None]]
    /\ transactions = [a \in Escrows |-> {}]
    /\ latest_transaction = [a \in Escrows |-> None]
    /\ latest_bulk_transaction = [a \in Escrows |-> None]
    /\ transient_tokens = [a \in Escrows |-> 1]
    /\ revenue = [a \in Escrows |-> [c \in Currencies |-> 0]]
    /\ txhash = 1
    /\ worktop_tokens = << >>
    /\ auth_zone = {}
    /\ fee_vaults = [c \in Currencies |-> None]
    /\ routing = Idle
    /\ pending = [a \in Escrows |-> None]
    /\ ncalls = 0
    /\ royal_listed = {}
    /\ last = Plain("init", "-")

\* The same, for a collection whose maximum rate is 1.
InitWorld(royalty_percent, mkt_fee, vaults) == InitPolicy(royalty_percent, ONE, mkt_fee, vaults)

NoVaults == [c \in Currencies |-> None]

\* A bucket of a resource holds a multiple of the resource's unit.
BucketAmounts(S, cur) == {amt \in S : amt >= 0 /\ RoundToZero(amt, cur) = amt}

(***************************************************************************)
(* Spec: the settlement protocol.  Two escrow accounts sell the items of   *)
(* the royalty-enforced collection at 100 XRD through the marketplace      *)
(* "mkt" (royalty 10%, fee 2%); the buyer declares accA as destination.    *)
(***************************************************************************)
RoyalItems == {R1, R2}
Price == 100 * ONE

Init == InitWorld(ONE \div 10, Some(ONE \div 50), NoVaults)

Next ==
    \/ \E h \in Holders, x \in RoyalItems : Withdraw(h, x)
    \/ \E h \in Holders, x \in RoyalItems : Deposit(h, x)
    \/ EndTx
    \/ \E a \in Escrows, x \in RoyalItems : royal_list(a, x, Price, "XRD", {"mkt"})
    \/ \E a \in Escrows, x \in RoyalItems : list(a, x, "XRD", Price, {"mkt"})
    \/ \E a \in Escrows, x \in RoyalItems :
          purchase_royal_listing(a, x, Price, "XRD", "mkt", "accA")
    \/ \E a \in Escrows, xs \in {<<R1>>, <<R1, R2>>}, amt \in {Price, 2 * Price} :
          purchase_multi_royal_listings(a, xs, amt, "XRD", "accA", "mkt")
    \/ \E a \in Escrows, t \in TokenBuckets : cleared(a, t)
    \/ \E a \in Escrows, t \in TokenBuckets : multi_cleared(a, t)

Spec == Init /\ [][Next]_vars

(***************************************************************************)
(* SpecPay: the royalty component called directly.  The component starts   *)
(* with any rate between 0 and 1; its XRD vault is missing or holds an     *)
(* earlier royalty; a caller hands any payment bucket to pay_royalty or to *)
(* pay_royalty_basic.                                                      *)
(***************************************************************************)
PayRates == 0..ONE
PayAmounts == 0..(MaxPayUnits * ONE)
PayVaults == {NoVaults, [NoVaults EXCEPT !["XRD"] = Some(ONE)]}

\* One call of pay_royalty on a payment bucket.
PayRoyalty(payment_amount, currency) ==
    LET paid == pay_royalty(RoyalClass, {R1.id}, payment_amount, currency, "mkt", "accA")
    IN  /\ ncalls < MaxPays
        /\ IsSome(paid)
        /\ royalty_vaults' = royalty_vault_put(currency, Unwrap(paid).royalty)
        /\ ncalls' = ncalls + 1
        /\ last' = Call("pay_royalty", "-", "mkt", currency, payment_amount,
                        Unwrap(paid).royalty, 0, Unwrap(paid).remainder, FALSE, NoTokens, << >>)
        /\ UNCHANGED <<royalty_config, resourceVars, traderVars, ledgerVars, pending, royal_listed, auth_zone, routerVars>>

\* One call of pay_royalty_basic on a payment bucket.
PayRoyaltyBasic(payment_amount, currency) ==
    LET paid == pay_royalty_basic(RoyalClass, payment_amount, currency, "mkt")
    IN  /\ ncalls < MaxPays
        /\ IsSome(paid)
        /\ royalty_vaults' = royalty_vault_put(currency, Unwrap(paid).royalty)
        /\ ncalls' = ncalls + 1
        /\ last' = Call("pay_royalty_basic", "-", "mkt", currency, payment_amount,
                        Unwrap(paid).royalty, 0, Unwrap(paid).remainder, FALSE, NoTokens, << >>)
        /\ UNCHANGED <<royalty_config, resourceVars, traderVars, ledgerVars, pending, royal_listed, auth_zone, routerVars>>

InitPay ==
    \E rate \in PayRates, vaults \in PayVaults :
        InitWorld(rate, Some(ONE \div 50), vaults)

NextPay ==
    \/ \E c \in Currencies : \E amt \in BucketAmounts(PayAmounts, c) : PayRoyalty(amt, c)
    \/ \E c \in Currencies : \E amt \in BucketAmounts(PayAmounts, c) : PayRoyaltyBasic(amt, c)

SpecPay == InitPay /\ [][NextPay]_vars

PayOps == {"pay_royalty", "pay_royalty_basic"}

\* C1: a successful pay_royalty / pay_royalty_basic keeps as royalty the
\* product amount * rate cut toward zero to the currency's precision (never
\* more than the true product, and less than one currency unit below it),
\* hands back a remainder with remainder + royalty = amount, and the
\* currency's royalty vault grows by exactly the royalty while the other
\* vaults stay as they were.
C1_RoyaltyConserved ==
    [][(ncalls' = ncalls + 1 /\ last'.op \in PayOps) =>
          LET cur == last'.cur
              rate == royalty_config.royalty_percent
          IN  /\ last'.royalty >= 0
              /\ last'.royalty * ONE <= last'.amount * rate
              /\ last'.amount * rate < (last'.royalty + Unit(cur)) * ONE
              /\ last'.royalty % Unit(cur) = 0
              /\ last'.proceeds + last'.royalty = last'.amount
              /\ Balance(royalty_vaults'[cur]) = Balance(royalty_vaults[cur]) + last'.royalty
              /\ IsSome(royalty_vaults'[cur])
              /\ \A c \in Currencies \ {cur} : royalty_vaults'[c] = royalty_vaults[c]]_vars

\* A payment whose product is not a whole number of currency units has been
\* paid into a vault that already held a royalty.
C1_Witness ==
    /\ last.op \in PayOps
    /\ last.royalty > 0
    /\ (last.amount * royalty_config.royalty_percent) % (Unit(last.cur) * ONE) # 0
    /\ Balance(royalty_vaults[last.cur]) > last.royalty

(***************************************************************************)
(* SpecSplit: one escrow account sells the royalty-enforced items at       *)
(* several prices and currencies, under several royalty rates and several  *)
(* marketplace fee rates (the credential may also carry no fee metadata).  *)
(***************************************************************************)
SplitRates == {0, ONE \div 10, ONE \div 3, ONE}
SplitFees == {None, Some(0), Some(ONE \div 50), Some(ONE \div 3), Some(ONE)}
SplitPrices == {7, 5 * ONE, Price}
SplitPayments == SplitPrices \cup {p + q : p, q \in SplitPrices}

InitSplit ==
    \E rate \in SplitRates, fee \in SplitFees : InitWorld(rate, fee, NoVaults)

NextSplit ==
    \/ \E x \in RoyalItems : Withdraw("accA", x)
    \/ \E x \in RoyalItems : Deposit("accA", x)
    \/ EndTx
    \/ \E x \in RoyalItems, price \in SplitPrices, c \in Currencies :
          royal_list("A", x, price, c, {"mkt"})
    \/ \E x \in RoyalItems, c \in Currencies : \E amt \in BucketAmounts(SplitPayments, c) :
          purchase_royal_listing("A", x, amt, c, "mkt", "accA")
    \/ \E xs \in {<<R1>>, <<R1, R2>>}, c \in Currencies :
          \E amt \in BucketAmounts(SplitPayments, c) :
              purchase_multi_royal_listings("A", xs, amt, c, "accA", "mkt")
    \/ \E t \in TokenBuckets : cleared("A", t)
    \/ \E t \in TokenBuckets : multi_cleared("A", t)

SpecSplit == InitSplit /\ [][NextSplit]_vars

RoyalPurchaseOps == {"purchase_royal_listing", "purchase_multi_royal_listings"}

\* The fee rate a credential carries: its "marketplace_fee" metadata, 0 without it.
FeeRate(permission) ==
    IF IsSome(marketplace_fee[permission]) THEN Unwrap(marketplace_fee[permission]) ELSE 0

\* C2: a successful purchase_royal_listing / purchase_multi_royal_listings of
\* total price P splits P three ways and keeps nothing: the royalty is P * r
\* cut toward zero to the currency's precision and goes to the royalty vault,
\* the fee is P * f (f applied to the whole of P, not to what the royalty
\* left) cut the same way and is the returned fee bucket, and P - royalty -
\* fee is stored for the seller.
C2_ThreeWaySplit ==
    [][(ncalls' = ncalls + 1 /\ last'.op \in RoyalPurchaseOps) =>
          LET cur == last'.cur
              P == last'.amount
              r == royalty_config.royalty_percent
              f == FeeRate(last'.permission)
          IN  /\ last'.royalty >= 0 /\ last'.royalty % Unit(cur) = 0
              /\ last'.royalty * ONE <= P * r
              /\ P * r < (last'.royalty + Unit(cur)) * ONE
              /\ last'.fee >= 0 /\ last'.fee % Unit(cur) = 0
              /\ last'.fee * ONE <= P * f
              /\ P * f < (last'.fee + Unit(cur)) * ONE
              /\ last'.fee_bucket = IsSome(marketplace_fee[last'.permission])
              /\ last'.proceeds = P - last'.royalty - last'.fee
              /\ last'.proceeds >= 0
              /\ Balance(royalty_vaults'[cur]) = Balance(royalty_vaults[cur]) + last'.royalty
              /\ revenue'[last'.acct][cur] = revenue[last'.acct][cur] + last'.proceeds
              /\ \A a \in Escrows, c \in Currencies :
                    (a # last'.acct \/ c # cur) => revenue'[a][c] = revenue[a][c]]_vars

\* The purchase at 100 under a 10% royalty and a 2% fee has split 10 / 2 / 88.
C2_Witness ==
    /\ last.op \in RoyalPurchaseOps
    /\ last.amount = 100 * ONE
    /\ royalty_config.royalty_percent = ONE \div 10
    /\ FeeRate(last.permission) = ONE \div 50
    /\ last.royalty = 10 * ONE /\ last.fee = 2 * ONE /\ last.proceeds = 88 * ONE
    /\ royalty_vaults[last.cur] = Some(10 * ONE)
    /\ revenue[last.acct][last.cur] = 88 * ONE

(***************************************************************************)
(* SpecListing: one escrow account and every way of listing, cancelling    *)
(* and purchasing, over both collections.                                  *)
(***************************************************************************)
ListPrices == {0, Price}
ListEntries == [nfgid : Items, price : {Price}]

NextListing ==
    \/ \E x \in Items : Withdraw("accA", x)
    \/ \E x \in Items : Deposit("accA", x)
    \/ EndTx
    \/ \E x \in Items, price \in ListPrices : royal_list("A", x, price, "XRD", {"mkt"})
    \/ \E x \in Items, price \in ListPrices : list("A", x, "XRD", price, {"mkt"})
    \/ \E entries \in Batches(ListEntries), items \in SUBSET Items :
          royal_multi_list("A", entries, "XRD", {"mkt"}, items)
    \/ \E entries \in Batches(ListEntries), items \in SUBSET Items :
          multi_list("A", entries, "XRD", {"mkt"}, items)
    \/ \E x \in Items : cancel_listing("A", x)
    \/ \E x \in Items : cancel_royal_listing("A", x)
    \/ \E x \in Items : same_owner_royal_transfer("A", x, "accA")
    \/ \E x \in Items : purchase_royal_listing("A", x, Price, "XRD", "mkt", "accA")
    \/ \E xs \in Batches(Items), amt \in {Price, 2 * Price} :
          purchase_multi_royal_listings("A", xs, amt, "XRD", "accA", "mkt")
    \/ \E x \in Items : purchase_listing("A", x, Price, "XRD", "mkt")
    \/ \E xs \in Batches(Items), amt \in {Price, 2 * Price} :
          multi_purchase_listing("A", xs, amt, "XRD", "mkt")
    \/ \E t \in TokenBuckets : cleared("A", t)
    \/ \E t \in TokenBuckets : multi_cleared("A", t)

SpecListing == Init /\ [][NextListing]_vars

\* C3: in every reachable state of an escrow account, an item has a listing
\* exactly when it sits in the account's vault of its class.
C3_ListingIffVaulted ==
    \A a \in Escrows, x \in Items : IsSome(listings[a][x]) <=> loc[x] = a

(***************************************************************************)
(* The settlement protocol (checked under Spec).  pending[a] is the        *)
(* settlement open on account a: the last royalty purchase on a since      *)
(* cleared / multi_cleared last succeeded on a.                            *)
(***************************************************************************)
ClearOps == {"cleared", "multi_cleared"}

\* This step is a successful cleared / multi_cleared on account a.
ClearedStep(a) ==
    /\ last'.op \in ClearOps
    /\ last'.acct = a
    /\ (last' # last \/ worktop_tokens' # worktop_tokens)

\* This step is a successful royalty purchase on account a.
RoyalPurchaseStep(a) ==
    /\ ncalls' = ncalls + 1
    /\ last'.op \in RoyalPurchaseOps
    /\ last'.acct = a

\* The destination declared in settlement t holds every item of t.
Delivered(t) == \A x \in t.items : loc[x] = t.dest

\* C4: the transient token a purchase issued is accepted back, by cleared or
\* by multi_cleared, only while the destination declared in that purchase
\* holds every item of that purchase.
C4_ClosedOnlyWhenDelivered ==
    last.op \in ClearOps => \A i \in DOMAIN last.toks : Delivered(last.toks[i])

\* C5: while a settlement is open on any escrow account for items of a class,
\* the depositor rule of that class is relaxed.
C5_OpenMeansRelaxed ==
    \A a \in Escrows :
        IsSome(pending[a]) =>
            \A x \in Unwrap(pending[a]).items : depositable[x.class] = AllowAll

\* C6: cleared / multi_cleared on an account accepts only tokens that a
\* purchase on that same account handed out.
C6_OnlyOwnToken ==
    last.op \in ClearOps => \A i \in DOMAIN last.toks : last.toks[i].acct = last.acct

\* C7: an account's transient-token vault holds exactly one token while no
\* settlement is open on it and none while one is open.
C7_TokenVaultOneOrZero ==
    \A a \in Escrows : transient_tokens[a] = IF IsSome(pending[a]) THEN 0 ELSE 1

\* C8: a royalty purchase succeeds on an account only while no settlement is
\* open on that account.
C8_OneOutstandingSettlement ==
    [][\A a \in Escrows : RoyalPurchaseStep(a) => pending[a] = None]_vars

\* C9: cleared / multi_cleared succeeds on an account only if a royalty
\* purchase happened on it since the last successful cleared / multi_cleared:
\* a second one in a row fails.
C9_ClearedConsumesPending ==
    [][\A a \in Escrows : ClearedStep(a) => IsSome(pending[a])]_vars

\* C10: cleared / multi_cleared succeeds only when the account has an open
\* settlement whose declared destination holds every item of it; otherwise
\* the call fails and the token vault, the record and the rule keep their
\* values.
C10_ClearedNeedsDeliveredPending ==
    [][\A a \in Escrows :
          ClearedStep(a) => (IsSome(pending[a]) /\ Delivered(Unwrap(pending[a])))]_vars

(***************************************************************************)
(* RoyalNFTs: the operations of the royalty component that set the         *)
(* depositor rule of its NFT resource.                                     *)
(***************************************************************************)
\* admin_config.depositer_rule of a collection with royalties enabled and not
\* honoured: only the badge holders may deposit.
depositer_rule == Restricted

\* Components that are not accounts.
Dapps == {"dapp"}

\* What the dapp's method does with the bucket: keeps the NFT or hands it back.
CustomMethods == {"keep", "return"}

\* remove_royalty_config: the creator gives up royalties.
remove_royalty_config ==
    /\ royalty_config' = [royalty_config EXCEPT !.restricted_movement = FALSE,
                                                !.royalty_percent = 0]
    /\ depositable' = [depositable EXCEPT ![RoyalClass] = AllowAll]
    /\ last' = Other
    /\ UNCHANGED <<royalty_vaults, loc, marketplace_fee, traderVars, ledgerVars,
                   pending, ncalls, royal_listed, auth_zone, routerVars>>

\* transfer_royalty_nft_to_dapp: the rule is opened, the dapp's method is
\* called with the bucket, and the rule is set to depositer_rule.
transfer_royalty_nft_to_dapp(nft, dapp, custom_method) ==
    /\ loc[nft] = Worktop
    /\ royalty_config.limit_dapps => dapp \in royalty_config.permissioned_dapps
    /\ loc' = [loc EXCEPT ![nft] = IF custom_method = "keep" THEN dapp ELSE Worktop]
    /\ depositable' = [depositable EXCEPT ![RoyalClass] = depositer_rule]
    /\ last' = Other
    /\ UNCHANGED <<royaltyVars, marketplace_fee, traderVars, ledgerVars,
                   pending, ncalls, royal_listed, auth_zone, routerVars>>

(***************************************************************************)
(* SpecGate: one escrow account sells the royalty-enforced items while the *)
(* creator may give up royalties and anyone may route an NFT to a dapp.    *)
(***************************************************************************)
NextGate ==
    \/ \E x \in RoyalItems : Withdraw("accA", x)
    \/ \E x \in RoyalItems : Deposit("accA", x)
    \/ EndTx
    \/ \E x \in RoyalItems : royal_list("A", x, Price, "XRD", {"mkt"})
    \/ \E x \in RoyalItems : cancel_royal_listing("A", x)
    \/ \E x \in RoyalItems : purchase_royal_listing("A", x, Price, "XRD", "mkt", "accA")
    \/ \E xs \in {<<R1>>, <<R1, R2>>}, amt \in {Price, 2 * Price} :
          purchase_multi_royal_listings("A", xs, amt, "XRD", "accA", "mkt")
    \/ \E t \in TokenBuckets : cleared("A", t)
    \/ \E t \in TokenBuckets : multi_cleared("A", t)
    \/ remove_royalty_config
    \/ \E x \in RoyalItems, m \in CustomMethods : transfer_royalty_nft_to_dapp(x, "dapp", m)

SpecGate == Init /\ [][NextGate]_vars

\* The classes of the items of settlement t.
SettledClasses(t) == {x.class : x \in t.items}

\* C11: the depositor rule of a class goes from restrictive to relaxed only in
\* a royalty purchase that records a settlement and hands out the transient
\* token, and from relaxed to restrictive only in a successful cleared /
\* multi_cleared of the settlement open on that account for that class; no
\* other operation changes the rule.
C11_RuleChangesOnlyBySettlement ==
    [][\A c \in Classes :
          /\ (depositable[c] = Restricted /\ depositable'[c] = AllowAll) =>
                \E a \in Escrows :
                    /\ RoyalPurchaseStep(a)
                    /\ IsSome(pending'[a])
                    /\ c \in SettledClasses(Unwrap(pending'[a]))
                    /\ Len(worktop_tokens') = Len(worktop_tokens) + 1
          /\ (depositable[c] = AllowAll /\ depositable'[c] = Restricted) =>
                \E a \in Escrows :
                    /\ ClearedStep(a)
                    /\ IsSome(pending[a])
                    /\ c \in SettledClasses(Unwrap(pending[a]))]_vars

(***************************************************************************)
(* Listing and purchasing (checked under SpecListing).                     *)
(***************************************************************************)
\* C12: a purchase_royal_listing / purchase_multi_royal_listings on an account
\* fails in every transaction in which royal_list or royal_multi_list has
\* created a listing on that account.
C12_NoPurchaseInListingTx ==
    [][\A a \in Escrows : RoyalPurchaseStep(a) => a \notin royal_listed]_vars

\* A royal item was listed on A in the running transaction, sits in the vault
\* with its listing, the transient token is there, and the purchase offering
\* the listed price through the permitted marketplace is refused.
C12_Witness ==
    \E x \in RoyalItems :
        /\ "A" \in royal_listed
        /\ IsSome(listings["A"][x])
        /\ loc[x] = "A"
        /\ transient_tokens["A"] >= 1
        /\ ncalls < MaxCalls
        /\ ~ENABLED purchase_royal_listing("A", x, Price, "XRD", "mkt", "accA")
        /\ ~ENABLED purchase_multi_royal_listings("A", << x >>, Price, "XRD", "accA", "mkt")

PurchaseOps == RoyalPurchaseOps \cup {"purchase_listing", "multi_purchase_listing"}

\* This step is a successful purchase, of any of the four kinds, on account a.
PurchaseStep(a) ==
    /\ ncalls' = ncalls + 1
    /\ last'.op \in PurchaseOps
    /\ last'.acct = a

\* C13: a purchase succeeds for an ItemKey only while the account has a
\* listing for it, and removes that listing; a listing for the ItemKey comes
\* back only when the item is listed again (a step that is no purchase and
\* that moves the item from the worktop into the account's vault).
C13_PurchasedUntilRelisted ==
    [][\A a \in Escrows, x \in Items :
          /\ (PurchaseStep(a) /\ x \in Range(last'.nfgids)) =>
                (IsSome(listings[a][x]) /\ listings'[a][x] = None)
          /\ (listings[a][x] = None /\ IsSome(listings'[a][x])) =>
                (~PurchaseStep(a) /\ loc[x] = Worktop /\ loc'[x] = a)]_vars

\* The plain item has been bought, listed again and bought a second time: its
\* listing is gone and the seller has been credited twice.
C13_Witness ==
    /\ last.op = "purchase_listing"
    /\ last.nfgids = << P1 >>
    /\ listings[last.acct][P1] = None
    /\ revenue[last.acct]["XRD"] = 2 * last.proceeds
    /\ \A x \in RoyalItems : loc[x] = "accA"

\* This step puts item x and no other, taken from the worktop, into the vault
\* of account a under a listing: list or royal_list was called with it (or a
\* multi list with this one item and its price).
ListStep(a, x) ==
    /\ loc[x] = Worktop /\ loc'[x] = a
    /\ \A y \in Items \ {x} : loc'[y] = loc[y]
    /\ IsSome(listings'[a][x])

\* This step takes item x out of the vault of account a without a purchase:
\* a cancel method was called for it.
CancelStep(a, x) == loc[x] = a /\ loc'[x] # a /\ ~PurchaseStep(a)

\* C14: listing an item and then cancelling its ItemKey gives exactly that
\* item back to the seller and leaves the listings and the vault as they were
\* before the list: the list finds no listing under the ItemKey and adds one,
\* the cancel needs that listing, removes it and nothing else, and moves that
\* item and no other to the seller; cancelling an ItemKey that has no listing
\* fails.
C14_ListCancelRoundTrip ==
    [][\A a \in Escrows, x \in Items :
          /\ ListStep(a, x) =>
                (listings[a][x] = None /\ listings' = [listings EXCEPT ![a][x] = listings'[a][x]])
          /\ CancelStep(a, x) =>
                /\ IsSome(listings[a][x])
                /\ listings' = [listings EXCEPT ![a][x] = None]
                /\ loc'[x] \in {Worktop, my_account(a)}
                /\ \A y \in Items \ {x} : loc'[y] = loc[y]]_vars

(***************************************************************************)
(* OpenTrader: the owner's changes to a listing.                           *)
(***************************************************************************)
revoke_market_permission(a, nft_id, permission_id) ==
    /\ IsSome(listings[a][nft_id])
    /\ listings' = [listings EXCEPT ![a][nft_id] =
            Some([Unwrap(@) EXCEPT !.secondary_seller_permissions = @ \ {permission_id}])]
    /\ last' = Other
    /\ UNCHANGED <<royaltyVars, resourceVars, transactions, latest_transaction,
                   latest_bulk_transaction, transient_tokens, revenue, ledgerVars,
                   pending, ncalls, royal_listed, auth_zone, routerVars>>

add_buyer_permission(a, nft_id, permission_id) ==
    /\ IsSome(listings[a][nft_id])
    /\ listings' = [listings EXCEPT ![a][nft_id] =
            Some([Unwrap(@) EXCEPT !.secondary_seller_permissions = @ \cup {permission_id}])]
    /\ last' = Other
    /\ UNCHANGED <<royaltyVars, resourceVars, transactions, latest_transaction,
                   latest_bulk_transaction, transient_tokens, revenue, ledgerVars,
                   pending, ncalls, royal_listed, auth_zone, routerVars>>

change_price(a, nft_id, new_price) ==
    /\ IsSome(listings[a][nft_id])
    /\ listings' = [listings EXCEPT ![a][nft_id] = Some([Unwrap(@) EXCEPT !.price = new_price])]
    /\ last' = Other
    /\ UNCHANGED <<royaltyVars, resourceVars, transactions, latest_transaction,
                   latest_bulk_transaction, transient_tokens, revenue, ledgerVars,
                   pending, ncalls, royal_listed, auth_zone, routerVars>>

(***************************************************************************)
(* SpecPurchase: one escrow account lists one item of each collection at   *)
(* either of two prices, in either currency, for either marketplace; the   *)
(* owner may revoke or add a marketplace and change the price; buyers      *)
(* offer any of the payments through any credential.                       *)
(***************************************************************************)
PurchaseItems == {R1, P1}
PurchasePrices == {Price, 2 * Price}
PurchasePayments == PurchasePrices \cup {p + q : p, q \in PurchasePrices}

NextPurchase ==
    \/ \E x \in PurchaseItems : Withdraw("accA", x)
    \/ \E x \in PurchaseItems : Deposit("accA", x)
    \/ EndTx
    \/ \E x \in PurchaseItems, price \in PurchasePrices, c \in Currencies :
          royal_list("A", x, price, c, {"mkt"})
    \/ \E x \in PurchaseItems, p \in Credentials : revoke_market_permission("A", x, p)
    \/ \E x \in PurchaseItems, p \in Credentials : add_buyer_permission("A", x, p)
    \/ \E x \in PurchaseItems, price \in PurchasePrices : change_price("A", x, price)
    \/ \E x \in PurchaseItems, amt \in PurchasePayments, c \in Currencies, p \in Credentials :
          ncalls < MaxPurchases /\ purchase_royal_listing("A", x, amt, c, p, "accA")
    \/ \E xs \in Batches(PurchaseItems), amt \in PurchasePayments, c \in Currencies,
          p \in Credentials :
          ncalls < MaxPurchases /\ purchase_multi_royal_listings("A", xs, amt, c, "accA", p)
    \/ \E x \in PurchaseItems, amt \in PurchasePayments, c \in Currencies, p \in Credentials :
          ncalls < MaxPurchases /\ purchase_listing("A", x, amt, c, p)
    \/ \E xs \in Batches(PurchaseItems), amt \in PurchasePayments, c \in Currencies,
          p \in Credentials :
          ncalls < MaxPurchases /\ multi_purchase_listing("A", xs, amt, c, p)
    \/ \E t \in TokenBuckets : cleared("A", t)
    \/ \E t \in TokenBuckets : multi_cleared("A", t)

SpecPurchase == Init /\ [][NextPurchase]_vars

\* The listing account a holds for the i-th key of `keys`.
ListingOf(a, keys, i) == Unwrap(listings[a][keys[i]])

\* The prices of the listings of `keys` on account a, added up from the last.
RECURSIVE TotalPrice(_, _, _)
TotalPrice(a, keys, n) ==
    IF n = 0 THEN 0 ELSE ListingOf(a, keys, n).price + TotalPrice(a, keys, n - 1)

\* C15: a purchase commits only if every ItemKey it names has a listing on the
\* account, the presented credential's class is among the permissions of each
\* of those listings, the payment's currency is the currency of each of them,
\* and the payment's amount is the listing's price (the sum of the prices for
\* a multi purchase).
C15_PurchaseGuards ==
    [][\A a \in Escrows :
          PurchaseStep(a) =>
              LET keys == last'.nfgids
              IN  /\ keys # << >>
                  /\ \A i \in DOMAIN keys :
                        /\ IsSome(listings[a][keys[i]])
                        /\ last'.permission \in ListingOf(a, keys, i).secondary_seller_permissions
                        /\ last'.cur = ListingOf(a, keys, i).currency
                  /\ last'.amount = TotalPrice(a, keys, Len(keys))]_vars

\* A buyer has bought one item through "priv" at the price and in the currency
\* of its listing, while the other item, whose "mkt" permission the owner
\* revoked after adding "priv", cannot be bought through "mkt" at its price.
C15_Witness ==
    \E x \in PurchaseItems :
        /\ IsSome(listings["A"][x]) /\ loc[x] = "A" /\ ncalls < MaxPurchases
        /\ Unwrap(listings["A"][x]).secondary_seller_permissions = {"priv"}
        /\ ~ENABLED purchase_listing("A", x, Unwrap(listings["A"][x]).price,
                                     Unwrap(listings["A"][x]).currency, "mkt")
        /\ ENABLED purchase_listing("A", x, Unwrap(listings["A"][x]).price,
                                    Unwrap(listings["A"][x]).currency, "priv")
        /\ last.op = "purchase_listing" /\ last.permission = "priv"
        /\ last.cur = "TKN" /\ last.amount = 2 * Price

(***************************************************************************)
(* RoyalNFTs: the creator's configuration methods.  Each changes           *)
(* royalty_config and nothing else.                                        *)
(***************************************************************************)
\* What a configuration method leaves alone.
ConfigOnly ==
    /\ last' = Other
    /\ UNCHANGED <<royalty_vaults, resourceVars, traderVars, ledgerVars,
                   pending, ncalls, royal_listed, auth_zone, routerVars>>

locked == royalty_config.royalty_configuration_locked

change_royalty_percentage_fee(new_royalty_percent) ==
    /\ ~locked
    /\ new_royalty_percent <= royalty_config.maximum_royalty_percent
    /\ royalty_config' = [royalty_config EXCEPT !.royalty_percent = new_royalty_percent]
    /\ ConfigOnly

lower_maximum_royalty_percentage(new_max_royalty_percent) ==
    /\ new_max_royalty_percent >= royalty_config.royalty_percent
    /\ royalty_config' = [royalty_config EXCEPT !.maximum_royalty_percent = new_max_royalty_percent]
    /\ ConfigOnly

restrict_currencies_true ==
    /\ ~locked
    /\ royalty_config' = [royalty_config EXCEPT !.limit_currencies = TRUE]
    /\ ConfigOnly

restrict_currencies_false ==
    /\ royalty_config' = [royalty_config EXCEPT !.limit_currencies = FALSE]
    /\ ConfigOnly

add_permitted_currency(currency) ==
    /\ royalty_config.limit_currencies
    /\ royalty_config' = [royalty_config EXCEPT !.permitted_currencies = @ \cup {currency}]
    /\ ConfigOnly

\* A remove_permitted_currency that does not look at the lock.
remove_permitted_currency_unlocked(currency) ==
    /\ royalty_config.limit_currencies
    /\ royalty_config' = [royalty_config EXCEPT !.permitted_currencies = @ \ {currency}]
    /\ ConfigOnly

remove_permitted_currency(currency) ==
    /\ royalty_config.limit_currencies
    /\ ~locked
    /\ royalty_config' = [royalty_config EXCEPT !.permitted_currencies = @ \ {currency}]
    /\ ConfigOnly

enable_minimum_royalties ==
    /\ royalty_config.limit_currencies
    /\ royalty_config' = [royalty_config EXCEPT !.minimum_royalties = TRUE]
    /\ ConfigOnly

disable_minimum_royalties ==
    /\ royalty_config' = [royalty_config EXCEPT !.minimum_royalties = FALSE]
    /\ ConfigOnly

set_minimum_royalty_amount(currency, minimum_royalty_amount) ==
    /\ royalty_config.limit_currencies
    /\ ~locked
    /\ royalty_config' = [royalty_config EXCEPT
            !.minimum_royalty_amounts[currency] = Some(minimum_royalty_amount)]
    /\ ConfigOnly

remove_minimum_royalty_amount(currency) ==
    /\ royalty_config.limit_currencies
    /\ royalty_config' = [royalty_config EXCEPT !.minimum_royalty_amounts[currency] = None]
    /\ ConfigOnly

limit_dapps_true ==
    /\ ~locked
    /\ royalty_config' = [royalty_config EXCEPT !.limit_dapps = TRUE]
    /\ ConfigOnly

limit_dapps_false ==
    /\ royalty_config' = [royalty_config EXCEPT !.limit_dapps = FALSE]
    /\ ConfigOnly

\* permissioned_dapps is kept as the set of its keys (the badge stored with a
\* dapp is read by deposit_via_router only).
add_permissioned_dapp(dapp, badge) ==
    /\ royalty_config' = [royalty_config EXCEPT !.permissioned_dapps = @ \cup {dapp}]
    /\ ConfigOnly

remove_permissioned_dapp(dapp) ==
    /\ ~locked
    /\ royalty_config' = [royalty_config EXCEPT !.permissioned_dapps = @ \ {dapp}]
    /\ ConfigOnly

add_permissioned_buyer(buyer) ==
    /\ royalty_config' = [royalty_config EXCEPT !.permissioned_buyers = @ \cup {buyer}]
    /\ ConfigOnly

remove_permissioned_buyer(buyer) ==
    /\ ~locked
    /\ royalty_config' = [royalty_config EXCEPT !.permissioned_buyers = @ \ {buyer}]
    /\ ConfigOnly

deny_all_buyers ==
    /\ ~locked
    /\ royalty_config' = [royalty_config EXCEPT !.limit_buyers = TRUE]
    /\ ConfigOnly

\* An allow_all_buyers that also opens the lock.
allow_all_buyers_unlocking ==
    /\ royalty_config' = [royalty_config EXCEPT !.limit_buyers = FALSE,
            !.royalty_configuration_locked = FALSE]
    /\ ConfigOnly

allow_all_buyers ==
    /\ royalty_config' = [royalty_config EXCEPT !.limit_buyers = FALSE]
    /\ ConfigOnly

lock_royalty_configuration ==
    /\ royalty_config' = [royalty_config EXCEPT !.royalty_configuration_locked = TRUE]
    /\ ConfigOnly

(***************************************************************************)
(* SpecConfig: the creator calls the configuration methods in any order on *)
(* a collection started at 10% with maximum 1.                             *)
(***************************************************************************)
ConfigRates == {0, ONE \div 10, ONE}
MinimumAmounts == {20 * ONE}

\* A call of one of the configuration mutators.
ConfigMutator ==
    \/ \E r \in ConfigRates : change_royalty_percentage_fee(r)
    \/ \E r \in ConfigRates : lower_maximum_royalty_percentage(r)
    \/ restrict_currencies_true
    \/ restrict_currencies_false
    \/ \E c \in Currencies : add_permitted_currency(c)
    \/ \E c \in Currencies : remove_permitted_currency(c)
    \/ enable_minimum_royalties
    \/ disable_minimum_royalties
    \/ \E c \in Currencies, m \in MinimumAmounts : set_minimum_royalty_amount(c, m)
    \/ \E c \in Currencies : remove_minimum_royalty_amount(c)
    \/ limit_dapps_true
    \/ limit_dapps_false
    \/ \E d \in Dapps : add_permissioned_dapp(d, "badge")
    \/ \E d \in Dapps : remove_permissioned_dapp(d)
    \/ \E b \in Credentials : add_permissioned_buyer(b)
    \/ \E b \in Credentials : remove_permissioned_buyer(b)
    \/ deny_all_buyers
    \/ allow_all_buyers
    \/ lock_royalty_configuration

NextConfig ==
    \/ ConfigMutator
    \/ remove_royalty_config

SpecConfig == Init /\ [][NextConfig]_vars

\* C16: once lock_royalty_configuration has run, royalty_configuration_locked
\* is true in every later state.
C16_LockIsForever ==
    [][locked => royalty_config'.royalty_configuration_locked]_vars

\* The configuration was locked and the creator has since given up royalties
\* and let every buyer in again: the lock is still there.
C16_Witness ==
    /\ locked
    /\ ~royalty_config.restricted_movement
    /\ ~royalty_config.limit_buyers /\ royalty_config.permissioned_buyers # {}

\* C17: while the configuration is locked, every call that tightens it fails
\* (changing the rate, restrict_currencies_true, limit_dapps_true,
\* deny_all_buyers, remove_permitted_currency, remove_permissioned_dapp,
\* remove_permissioned_buyer, set_minimum_royalty_amount), and every call that
\* relaxes it still succeeds when its other preconditions hold
\* (lower_maximum_royalty_percentage, restrict_currencies_false,
\* limit_dapps_false, allow_all_buyers, add_permitted_currency,
\* add_permissioned_dapp, add_permissioned_buyer,
\* remove_minimum_royalty_amount).
C17_LockTable ==
    locked =>
        /\ \A r \in ConfigRates : ~ENABLED change_royalty_percentage_fee(r)
        /\ ~ENABLED restrict_currencies_true
        /\ ~ENABLED limit_dapps_true
        /\ ~ENABLED deny_all_buyers
        /\ \A c \in Currencies : ~ENABLED remove_permitted_currency(c)
        /\ \A d \in Dapps : ~ENABLED remove_permissioned_dapp(d)
        /\ \A b \in Credentials : ~ENABLED remove_permissioned_buyer(b)
        /\ \A c \in Currencies, m \in MinimumAmounts : ~ENABLED set_minimum_royalty_amount(c, m)
        /\ \A r \in ConfigRates :
              r >= royalty_config.royalty_percent => ENABLED lower_maximum_royalty_percentage(r)
        /\ ENABLED restrict_currencies_false
        /\ ENABLED limit_dapps_false
        /\ ENABLED allow_all_buyers
        /\ \A c \in Currencies :
              royalty_config.limit_currencies =>
                  (ENABLED add_permitted_currency(c) /\ ENABLED remove_minimum_royalty_amount(c))
        /\ \A d \in Dapps : ENABLED add_permissioned_dapp(d, "badge")
        /\ \A b \in Credentials : ENABLED add_permissioned_buyer(b)

\* A locked configuration with every restriction switched on and something to
\* remove from every list.
C17_Witness ==
    /\ locked
    /\ royalty_config.limit_currencies /\ royalty_config.permitted_currencies # {}
    /\ royalty_config.limit_dapps /\ royalty_config.permissioned_dapps # {}
    /\ royalty_config.limit_buyers /\ royalty_config.permissioned_buyers # {}
    /\ royalty_config.minimum_royalties
    /\ \E c \in Currencies : IsSome(royalty_config.minimum_royalty_amounts[c])
    /\ royalty_config.royalty_percent < royalty_config.maximum_royalty_percent

\* The pay_royalty calls a buyer may make: a payment of the price in either
\* currency through either credential.
PayCalls == [currency : Currencies, buyer : Credentials, amount : {Price}]

\* What pay_royalty answers to `call` under the current configuration.
Paid(call) == pay_royalty(RoyalClass, {R1.id}, call.amount, call.currency, call.buyer, "accA")

\* C18: once the configuration is locked, a configuration mutator only makes
\* it more permissive: every pay_royalty call that succeeds before the
\* mutator still succeeds after it and is charged no higher royalty.
C18_LockedOnlyMorePermissive ==
    [][(locked /\ ConfigMutator) =>
          \A call \in PayCalls :
              IsSome(Paid(call)) =>
                  /\ IsSome(Paid(call)')
                  /\ Unwrap(Paid(call)').royalty <= Unwrap(Paid(call)).royalty]_vars

(***************************************************************************)
(* SpecRates: a collection is started with any pair of rates that          *)
(* start_royalty_nft accepts, and the creator changes the rate, moves the  *)
(* maximum, locks the configuration and gives up royalties in any order.   *)
(* Decimal is signed: the rates offered run from -1 to 2 in quarters.      *)
(***************************************************************************)
RateInputs == {TruncDiv(k * ONE, 4) : k \in -4..8}

InitRates ==
    \E royalty_percent \in RateInputs, maximum_royalty_percent \in RateInputs :
        InitPolicy(royalty_percent, maximum_royalty_percent, Some(ONE \div 50), NoVaults)

NextRates ==
    \/ \E r \in RateInputs : change_royalty_percentage_fee(r)
    \/ \E r \in RateInputs : lower_maximum_royalty_percentage(r)
    \/ lock_royalty_configuration
    \/ remove_royalty_config

SpecRates == InitRates /\ [][NextRates]_vars

\* C19: the rate never exceeds the maximum rate: at creation and after any
\* sequence of change_royalty_percentage_fee, lower_maximum_royalty_percentage
\* and remove_royalty_config, locked or not.
C19_RateWithinMaximum ==
    royalty_config.royalty_percent <= royalty_config.maximum_royalty_percent

\* C20: both rates are fractions in every reachable state: the rate is not
\* negative and the maximum rate is at most 1.
C20_RatesAreFractions ==
    /\ 0 <= royalty_config.royalty_percent
    /\ royalty_config.maximum_royalty_percent <= ONE

(***************************************************************************)
(* pay_royalty under every configuration (checked under SpecConfig).       *)
(***************************************************************************)
\* The royalty pay_royalty computes for a payment: the product cut toward zero
\* to the currency's precision.
ComputedRoyalty(call) ==
    RoundToZero(checked_mul(call.amount, royalty_config.royalty_percent), call.currency)

\* The four refusals of pay_royalty for the collection `nft` and `call`.
WrongCollection(nft) == nft # RoyalClass

BuyerRefused(call) ==
    royalty_config.limit_buyers /\ call.buyer \notin royalty_config.permissioned_buyers

CurrencyRefused(call) ==
    royalty_config.limit_currencies /\ call.currency \notin royalty_config.permitted_currencies

BelowMinimumRoyalty(call) ==
    /\ royalty_config.minimum_royalties /\ royalty_config.limit_currencies
    /\ IsSome(royalty_config.minimum_royalty_amounts[call.currency])
    /\ ComputedRoyalty(call) < Unwrap(royalty_config.minimum_royalty_amounts[call.currency])

\* C21: pay_royalty fails whenever (a) the item class is not the policy's
\* collection, (b) limit_buyers is on and the buyer is not permissioned, (c)
\* limit_currencies is on and the currency is not permitted, or (d)
\* minimum_royalties and limit_currencies are on and the computed royalty is
\* below the minimum configured for the currency; when none of them applies
\* it succeeds.
C21_PayRoyaltyRefusals ==
    \A nft \in Classes, call \in PayCalls :
        (pay_royalty(nft, {R1.id}, call.amount, call.currency, call.buyer, "accA") = None)
            <=> \/ WrongCollection(nft)
                \/ BuyerRefused(call)
                \/ CurrencyRefused(call)
                \/ BelowMinimumRoyalty(call)

(***************************************************************************)
(* RoyalNFTs: who may call what.  A method restricted to the admin role    *)
(* runs only if the caller's auth zone holds a proof of the creator badge. *)
(***************************************************************************)
CreatorBadge == "nft_creator_admin"
Badges == {CreatorBadge, "other_badge"}

AdminMethods ==
    {"change_royalty_percentage_fee", "lower_maximum_royalty_percentage",
     "restrict_currencies_true", "restrict_currencies_false",
     "add_permitted_currency", "remove_permitted_currency",
     "enable_minimum_royalties", "disable_minimum_royalties",
     "set_minimum_royalty_amount", "remove_minimum_royalty_amount",
     "add_permissioned_buyer", "remove_permissioned_buyer",
     "limit_dapps_false", "limit_dapps_true",
     "add_permissioned_dapp", "remove_permissioned_dapp",
     "allow_all_buyers", "deny_all_buyers", "lock_royalty_configuration",
     "withdraw_from_royalty_vault", "remove_royalty_config"}

PublicMethods ==
    {"creator_admin", "pay_royalty", "transfer_royalty_nft_to_dapp", "deposit_via_router",
     "cleared", "get_transient_token_address", "pay_royalty_basic"}

\* A table that leaves withdraw_from_royalty_vault open to everyone.
restrict_to_open(method) ==
    IF method \in AdminMethods \ {"withdraw_from_royalty_vault"} THEN {"admin"} ELSE {}

\* enable_method_auth: the roles a method is restricted to; none for PUBLIC.
restrict_to(method) == IF method \in AdminMethods THEN {"admin"} ELSE {}

\* roles!: admin => rule!(require(nft_creator_admin)).
RoleRule(role) == {CreatorBadge}

\* The method-auth check the component runs before the method's body.
Callable(method) ==
    \A role \in restrict_to(method) : RoleRule(role) \subseteq auth_zone

\* The transaction presents a proof of a badge its signer holds.
create_proof(badge) ==
    /\ auth_zone' = auth_zone \cup {badge}
    /\ last' = Other
    /\ UNCHANGED <<royaltyVars, resourceVars, traderVars, ledgerVars,
                   pending, ncalls, royal_listed, routerVars>>

\* DROP_ALL_PROOFS.
drop_all_proofs ==
    /\ auth_zone' = {}
    /\ last' = Other
    /\ UNCHANGED <<royaltyVars, resourceVars, traderVars, ledgerVars,
                   pending, ncalls, royal_listed, routerVars>>

\* withdraw_from_royalty_vault: take_all of the currency's vault (the unwrap
\* of a missing vault panics).
withdraw_from_royalty_vault(currency) ==
    /\ IsSome(royalty_vaults[currency])
    /\ royalty_vaults' = [royalty_vaults EXCEPT ![currency] = Some(0)]
    /\ last' = Call("withdraw_from_royalty_vault", "-", "-", currency,
                    Unwrap(royalty_vaults[currency]), 0, 0, 0, FALSE, NoTokens, << >>)
    /\ UNCHANGED <<royalty_config, resourceVars, traderVars, ledgerVars,
                   pending, ncalls, royal_listed, auth_zone, routerVars>>

(***************************************************************************)
(* SpecAuth: transactions of the creator and of strangers call every       *)
(* method of the royalty component.                                        *)
(***************************************************************************)
AuthRates == {ONE \div 10, ONE}

NextAuth ==
    \/ \E b \in Badges : create_proof(b)
    \/ drop_all_proofs
    \/ \E r \in AuthRates :
          Callable("change_royalty_percentage_fee") /\ change_royalty_percentage_fee(r)
    \/ \E r \in AuthRates :
          Callable("lower_maximum_royalty_percentage") /\ lower_maximum_royalty_percentage(r)
    \/ Callable("restrict_currencies_true") /\ restrict_currencies_true
    \/ Callable("restrict_currencies_false") /\ restrict_currencies_false
    \/ Callable("add_permitted_currency") /\ add_permitted_currency("XRD")
    \/ Callable("remove_permitted_currency") /\ remove_permitted_currency("XRD")
    \/ Callable("enable_minimum_royalties") /\ enable_minimum_royalties
    \/ Callable("disable_minimum_royalties") /\ disable_minimum_royalties
    \/ \E m \in MinimumAmounts :
          Callable("set_minimum_royalty_amount") /\ set_minimum_royalty_amount("XRD", m)
    \/ Callable("remove_minimum_royalty_amount") /\ remove_minimum_royalty_amount("XRD")
    \/ Callable("limit_dapps_true") /\ limit_dapps_true
    \/ Callable("limit_dapps_false") /\ limit_dapps_false
    \/ Callable("add_permissioned_dapp") /\ add_permissioned_dapp("dapp", "badge")
    \/ Callable("remove_permissioned_dapp") /\ remove_permissioned_dapp("dapp")
    \/ Callable("add_permissioned_buyer") /\ add_permissioned_buyer("mkt")
    \/ Callable("remove_permissioned_buyer") /\ remove_permissioned_buyer("mkt")
    \/ Callable("deny_all_buyers") /\ deny_all_buyers
    \/ Callable("allow_all_buyers") /\ allow_all_buyers
    \/ Callable("lock_royalty_configuration") /\ lock_royalty_configuration
    \/ Callable("remove_royalty_config") /\ remove_royalty_config
    \/ \E c \in Currencies :
          Callable("withdraw_from_royalty_vault") /\ withdraw_from_royalty_vault(c)
    \/ Callable("pay_royalty") /\ PayRoyalty(Price, "XRD")

SpecAuth == Init /\ [][NextAuth]_vars

\* This step changes the configuration or takes money out of a royalty vault.
ConfigOrVaultTouched ==
    \/ royalty_config' # royalty_config
    \/ \E c \in Currencies : Balance(royalty_vaults'[c]) < Balance(royalty_vaults[c])
    \/ last'.op = "withdraw_from_royalty_vault" /\ last' # last

\* C22: the configuration changes, and a royalty vault is emptied, only in a
\* step whose caller presents the creator credential; pay_royalty and cleared
\* stay callable whatever the caller presents.
C22_CreatorOnly ==
    /\ [][ConfigOrVaultTouched => CreatorBadge \in auth_zone]_vars
    /\ [](Callable("pay_royalty") /\ Callable("cleared"))

\* A stranger (no creator proof presented) has paid a royalty into the vault
\* of a configuration the creator had changed, and cannot withdraw it.
C22_Witness ==
    /\ CreatorBadge \notin auth_zone
    /\ last.op = "pay_royalty"
    /\ royalty_config.limit_currencies
    /\ Balance(royalty_vaults["XRD"]) > 0
    /\ ~ENABLED (Callable("withdraw_from_royalty_vault") /\ withdraw_from_royalty_vault("XRD"))
    /\ ENABLED withdraw_from_royalty_vault("XRD")

(***************************************************************************)
(* GenericMarketplace: the router.  A router method groups its orders by   *)
(* trader account, calls each account once with the router's listing key   *)
(* ("mkt") and stores the fee buckets the calls return.  A panic anywhere  *)
(* aborts the transaction: the ledger is as it was before the request.     *)
(***************************************************************************)
MaxOrders == 2

marketplace_admin == "marketplace_admin"
Proofs == {marketplace_admin, "other_badge"}

Order(address, nfgid, amount) == [address |-> address, nfgid |-> nfgid, amount |-> amount]

\* grouped_orders.entry(address).or_insert_with(Vec::new).push((nfgid, payment)),
\* with the entries in reverse.
RECURSIVE GroupOfReversed(_, _)
GroupOfReversed(orders, address) ==
    IF orders = << >> THEN << >>
    ELSE GroupOfReversed(Tail(orders), address)
            \o (IF Head(orders).address = address THEN << Head(orders) >> ELSE << >>)

\* grouped_orders.entry(address).or_insert_with(Vec::new).push((nfgid, payment)).
RECURSIVE GroupOf(_, _)
GroupOf(orders, address) ==
    IF orders = << >> THEN << >>
    ELSE (IF Head(orders).address = address THEN << Head(orders) >> ELSE << >>)
            \o GroupOf(Tail(orders), address)

Addresses(orders) == {orders[i].address : i \in DOMAIN orders}

GroupIds(order_group) == [i \in DOMAIN order_group |-> order_group[i].nfgid]

\* order_group.map(|(_, payment)| payment).reduce(|acc, payment| acc + payment)
RECURSIVE SumAmounts(_)
SumAmounts(order_group) ==
    IF order_group = << >> THEN 0
    ELSE Head(order_group).amount + SumAmounts(Tail(order_group))

\* What a transaction abort restores.
Snapshot ==
    [royalty_vaults |-> royalty_vaults, depositable |-> depositable, loc |-> loc,
     listings |-> listings, latest_transaction |-> latest_transaction,
     latest_bulk_transaction |-> latest_bulk_transaction,
     transient_tokens |-> transient_tokens, revenue |-> revenue,
     worktop_tokens |-> worktop_tokens, fee_vaults |-> fee_vaults,
     pending |-> pending, ncalls |-> ncalls]

\* The position of a router method that has grouped its orders and is about
\* to enter its loop.
Routing(method, orders, full_payment, currency, account_recipient) ==
    [phase |-> "running", method |-> method, orders |-> orders,
     todo |-> Addresses(orders), full_payment |-> full_payment, payment |-> full_payment,
     currency |-> currency, account_recipient |-> account_recipient,
     calls |-> << >>, entry |-> Snapshot]

\* The router is not inside another request.
RequestStarts == routing.phase = "idle"

purchase_multi_royal_listing(orders, full_payment, currency, account_recipient) ==
    /\ RequestStarts
    /\ routing' = Routing("purchase_multi_royal_listing", orders, full_payment, currency,
                          account_recipient)
    /\ last' = Plain("purchase_multi_royal_listing", "-")
    /\ UNCHANGED <<royaltyVars, resourceVars, traderVars, ledgerVars, authVars, fee_vaults,
                   pending, ncalls, royal_listed>>

multi_listing_purchase(orders, full_payment, currency) ==
    /\ RequestStarts
    /\ routing' = Routing("multi_listing_purchase", orders, full_payment, currency, "-")
    /\ last' = Plain("multi_listing_purchase", "-")
    /\ UNCHANGED <<royaltyVars, resourceVars, traderVars, ledgerVars, authVars, fee_vaults,
                   pending, ncalls, royal_listed>>

\* The router's purchase_royal_listing: one call of the account's method of
\* the same name with the whole payment.
marketplace_purchase_royal_listing(nfgid, payment, currency, open_sale_address, account_recipient) ==
    /\ RequestStarts
    /\ routing' = Routing("purchase_royal_listing",
                          << Order(open_sale_address, nfgid, payment) >>, payment, currency,
                          account_recipient)
    /\ last' = Plain("marketplace_purchase_royal_listing", "-")
    /\ UNCHANGED <<royaltyVars, resourceVars, traderVars, ledgerVars, authVars, fee_vaults,
                   pending, ncalls, royal_listed>>

\* full_payment.take(amount)
CanTake(amount) == 0 <= amount /\ amount <= routing.full_payment

\* One iteration of the loop of purchase_multi_royal_listing: both branches
\* call purchase_multi_royal_listings.
royal_group_call(address) ==
    LET order_group == GroupOf(routing.orders, address)
    IN  /\ routing.phase = "running"
        /\ routing.method = "purchase_multi_royal_listing"
        /\ address \in routing.todo
        /\ CanTake(SumAmounts(order_group))
        /\ purchase_multi_royal_listings(address, GroupIds(order_group),
                                         SumAmounts(order_group), routing.currency,
                                         routing.account_recipient, "mkt")

\* One iteration of the loop of multi_listing_purchase: both branches call
\* multi_purchase_listing.
listing_group_call(address) ==
    LET order_group == GroupOf(routing.orders, address)
    IN  /\ routing.phase = "running"
        /\ routing.method = "multi_listing_purchase"
        /\ address \in routing.todo
        /\ CanTake(SumAmounts(order_group))
        /\ multi_purchase_listing(address, GroupIds(order_group), SumAmounts(order_group),
                                  routing.currency, "mkt")

\* The call the router's purchase_royal_listing makes.
single_royal_call(address) ==
    /\ routing.phase = "running"
    /\ routing.method = "purchase_royal_listing"
    /\ address \in routing.todo
    /\ purchase_royal_listing(address, routing.orders[1].nfgid, routing.orders[1].amount,
                              routing.currency, "mkt", routing.account_recipient)

\* The loop is over: the rest of the payment goes back with the NFTs.
router_return ==
    /\ routing.phase = "running"
    /\ routing.todo = {}
    /\ routing' = Idle
    /\ last' = Plain("router_return", "-")
    /\ UNCHANGED <<royaltyVars, resourceVars, traderVars, ledgerVars, authVars, fee_vaults,
                   pending, ncalls, royal_listed>>

\* The call of some remaining group panics.
GroupCallFails ==
    \E address \in routing.todo :
        /\ ~ENABLED royal_group_call(address)
        /\ ~ENABLED listing_group_call(address)
        /\ ~ENABLED single_royal_call(address)

\* An abort that keeps what the earlier groups did.
router_abort_partial ==
    /\ routing.phase = "running"
    /\ GroupCallFails
    /\ routing' = Idle
    /\ last' = Plain("abort", "-")
    /\ UNCHANGED <<royaltyVars, resourceVars, traderVars, ledgerVars, authVars, fee_vaults,
                   pending, ncalls, royal_listed>>

\* The transaction aborts: nothing it did is committed.
router_abort ==
    /\ routing.phase = "running"
    /\ GroupCallFails
    /\ routing' = Idle
    /\ royalty_vaults' = routing.entry.royalty_vaults
    /\ depositable' = routing.entry.depositable
    /\ loc' = routing.entry.loc
    /\ listings' = routing.entry.listings
    /\ latest_transaction' = routing.entry.latest_transaction
    /\ latest_bulk_transaction' = routing.entry.latest_bulk_transaction
    /\ transient_tokens' = routing.entry.transient_tokens
    /\ revenue' = routing.entry.revenue
    /\ worktop_tokens' = routing.entry.worktop_tokens
    /\ fee_vaults' = routing.entry.fee_vaults
    /\ pending' = routing.entry.pending
    /\ ncalls' = routing.entry.ncalls
    /\ last' = Plain("abort", "-")
    /\ UNCHANGED <<royalty_config, marketplace_fee, transactions, txhash, authVars,
                   royal_listed>>

\* withdraw_fees that empties the vault for any proof.
withdraw_fees_unchecked(resource_address, proof) ==
    /\ routing.phase # "running"
    /\ IsSome(fee_vaults[resource_address])
    /\ fee_vaults' = [fee_vaults EXCEPT ![resource_address] = Some(0)]
    /\ last' = Call("withdraw_fees", "-", proof, resource_address,
                    Unwrap(fee_vaults[resource_address]), 0, 0, 0, FALSE, NoTokens, << >>)
    /\ UNCHANGED <<royaltyVars, resourceVars, traderVars, ledgerVars, authVars, routing,
                   pending, ncalls, royal_listed>>

\* withdraw_fees: proof.check(marketplace_admin), then take_all of the vault
\* (the unwrap of a missing vault panics).
withdraw_fees(resource_address, proof) ==
    /\ routing.phase # "running"
    /\ proof = marketplace_admin
    /\ IsSome(fee_vaults[resource_address])
    /\ fee_vaults' = [fee_vaults EXCEPT ![resource_address] = Some(0)]
    /\ last' = Call("withdraw_fees", "-", proof, resource_address,
                    Unwrap(fee_vaults[resource_address]), 0, 0, 0, FALSE, NoTokens, << >>)
    /\ UNCHANGED <<royaltyVars, resourceVars, traderVars, ledgerVars, authVars, routing,
                   pending, ncalls, royal_listed>>

\* The rate the router was started with for mints.
mint_fee == ONE \div 50

\* purchase_preview_mint, as far as the router's own state goes: the router
\* takes its fee on the minter's price out of the payment, stores it, and
\* calls the minter with the price; the step is a call the minter accepts.
purchase_preview_mint(total_payment, currency, cost_per_item_from_minter, quantity_to_mint) ==
    LET payment_due_to_minter == cost_per_item_from_minter * quantity_to_mint
        marketplace_fee_to_take == checked_mul(payment_due_to_minter, mint_fee)
        fee_taken == take_advanced(total_payment - payment_due_to_minter,
                                   marketplace_fee_to_take, currency)
    IN  /\ routing.phase # "running"
        /\ mint_fee >= 0
        /\ cost_per_item_from_minter >= 0
        /\ quantity_to_mint > 0
        /\ total_payment >= payment_due_to_minter + marketplace_fee_to_take
        /\ marketplace_fee_to_take > 0 => fee_taken = Some(marketplace_fee_to_take)
        /\ fee_vaults' = IF marketplace_fee_to_take > 0
                         THEN fee_vault_put(currency, marketplace_fee_to_take)
                         ELSE fee_vaults
        /\ last' = Call("purchase_preview_mint", "-", "mkt", currency, total_payment, 0,
                        marketplace_fee_to_take, payment_due_to_minter,
                        marketplace_fee_to_take > 0, NoTokens, << >>)
        /\ UNCHANGED <<royaltyVars, resourceVars, traderVars, ledgerVars, authVars, routing,
                       pending, ncalls, royal_listed>>

(***************************************************************************)
(* SpecRouter: in the first transaction the sellers list on the two        *)
(* accounts at 100 XRD for the router's key; in the second, buyers send    *)
(* requests of up to MaxOrders orders with 200 XRD to the router and close *)
(* the settlements, and the marketplace admin and strangers call           *)
(* withdraw_fees.                                                          *)
(***************************************************************************)
RoyalRequests ==
    UNION {[1..n -> {Order(a, x, Price) : a \in Escrows, x \in RoyalItems}] : n \in 1..MaxOrders}
ListingRequests ==
    UNION {[1..n -> {Order(a, x, Price) : a \in Escrows, x \in {P1, R1}}] : n \in 1..MaxOrders}
FullPayment == 2 * Price
\* Mints are paid in TKN, listings in XRD: no mint has stored a fee yet.
NoMintYet == fee_vaults["TKN"] = None

\* The sellers' transaction, and the buyers' one between two router calls.
Selling == txhash = 1
Buying == txhash = 2 /\ routing.phase = "idle"
\* A request is the first thing a buyer's transaction does with the router.
Ordering == Buying /\ WorktopEmpty

NextRouter ==
    \/ \E x \in Items : Selling /\ Withdraw("accA", x)
    \/ \E a \in Escrows, x \in RoyalItems :
          Selling /\ royal_list(a, x, Price, "XRD", {"mkt"})
    \/ \E a \in Escrows : Selling /\ list(a, P1, "XRD", Price, {"mkt"})
    \/ Selling /\ Deposit("accA", P1)
    \/ Selling /\ EndTx
    \/ \E x \in RoyalItems : Buying /\ Deposit("accA", x)
    \/ \E a \in Escrows, t \in TokenBuckets : Buying /\ cleared(a, t)
    \/ \E a \in Escrows, t \in TokenBuckets : Buying /\ multi_cleared(a, t)
    \/ \E c \in Currencies, proof \in Proofs : Buying /\ withdraw_fees(c, proof)
    \/ \E orders \in RoyalRequests :
          Ordering /\ purchase_multi_royal_listing(orders, FullPayment, "XRD", "accA")
    \/ \E orders \in ListingRequests :
          Ordering /\ multi_listing_purchase(orders, FullPayment, "XRD")
    \/ \E a \in Escrows, x \in RoyalItems :
          Ordering /\ marketplace_purchase_royal_listing(x, Price, "XRD", a, "accA")
    \/ Buying /\ NoMintYet /\ purchase_preview_mint(2 * Price, "TKN", Price, 1)
    \/ \E a \in Escrows : royal_group_call(a)
    \/ \E a \in Escrows : listing_group_call(a)
    \/ \E a \in Escrows : single_royal_call(a)
    \/ router_return
    \/ router_abort

SpecRouter == Init /\ [][NextRouter]_vars

\* The orders of a request that name one account, as the request lists them.
OrdersFor(address) == SelectSeq(routing.orders, LAMBDA o : o.address = address)

\* C23: while a request runs, the router has called each account at most
\* once, the accounts called and those still to call are the distinct accounts
\* of the orders, each call carried the account's items in input order and the
\* sum of their stated amounts, and the request returns only when no account
\* is left.
C23_OneCallPerAccount ==
    /\ [](routing.phase = "running" =>
            /\ \A i, j \in DOMAIN routing.calls :
                  routing.calls[i].address = routing.calls[j].address => i = j
            /\ {routing.calls[i].address : i \in DOMAIN routing.calls}
                  = Addresses(routing.orders) \ routing.todo
            /\ \A i \in DOMAIN routing.calls :
                  LET mine == OrdersFor(routing.calls[i].address)
                  IN  /\ routing.calls[i].nfgids = [k \in DOMAIN mine |-> mine[k].nfgid]
                      /\ routing.calls[i].payment = SumAmounts(mine))
    /\ [][last'.op = "router_return" /\ last' # last => routing.todo = {}]_vars

\* The router has called account A with the two items of a request that
\* lists R2 before R1.
C23_Witness ==
    /\ routing.phase = "running"
    /\ routing.orders = << Order("A", R2, Price), Order("A", R1, Price) >>
    /\ Len(routing.calls) = 1
    /\ routing.calls[1].nfgids = << R2, R1 >>
    /\ routing.calls[1].payment = 2 * Price

SingleEntryPoints == {"purchase_royal_listing", "purchase_listing"}
MultiEntryPoints == {"purchase_multi_royal_listings", "multi_purchase_listing"}
BulkMethods == {"purchase_multi_royal_listing", "multi_listing_purchase"}

\* C24: in a bulk request, the call made to an account that receives exactly
\* one order is a call of the account's single-item purchase method, and the
\* call made to an account that receives several orders is a call of its
\* multi-item purchase method.
C24_EntryPointByGroupSize ==
    (routing.phase = "running" /\ routing.method \in BulkMethods) =>
        \A i \in DOMAIN routing.calls :
            IF Len(OrdersFor(routing.calls[i].address)) = 1
            THEN routing.calls[i].method \in SingleEntryPoints
            ELSE routing.calls[i].method \in MultiEntryPoints

\* What a running request has added, in its currency, to the royalty vault, to
\* the router's fee vault and to the sellers' stored proceeds.
RoyaltiesPaid ==
    Balance(royalty_vaults[routing.currency]) - Balance(routing.entry.royalty_vaults[routing.currency])
FeesStored ==
    Balance(fee_vaults[routing.currency]) - Balance(routing.entry.fee_vaults[routing.currency])
RECURSIVE SumRevenue(_, _, _)
SumRevenue(rev, accounts, currency) ==
    IF accounts = {} THEN 0
    ELSE LET a == CHOOSE a \in accounts : TRUE
         IN  rev[a][currency] + SumRevenue(rev, accounts \ {a}, currency)
ProceedsStored ==
    SumRevenue(revenue, Escrows, routing.currency)
        - SumRevenue(routing.entry.revenue, Escrows, routing.currency)

FeeReturned(c) ==
    IF /\ \/ routing.phase = "running" /\ last'.op \in PurchaseOps
          \/ last'.op = "purchase_preview_mint"
       /\ last'.fee_bucket
       /\ last'.cur = c
    THEN last'.fee
    ELSE 0

BulkRequests ==
    {<< Order("B", R2, Price) >>, << Order("A", R1, Price), Order("A", R2, Price) >>}

NotRouting == routing.phase # "running"

NextBulk ==
    \/ \E x \in RoyalItems : NotRouting /\ Withdraw("accA", x)
    \/ \E x \in RoyalItems : NotRouting /\ Deposit("accA", x)
    \/ NotRouting /\ EndTx
    \/ \E a \in Escrows, x \in RoyalItems :
          NotRouting /\ royal_list(a, x, Price, "XRD", {"mkt"})
    \/ \E x \in RoyalItems : NotRouting /\ list("A", x, "XRD", Price, {"mkt"})
    \/ \E orders \in BulkRequests :
          NotRouting /\ purchase_multi_royal_listing(orders, SumAmounts(orders), "XRD", "accA")
    \/ \E a \in Escrows, t \in TokenBuckets : NotRouting /\ multi_cleared(a, t)
    \/ \E a \in Escrows : royal_group_call(a)
    \/ router_return
    \/ router_abort

SpecBulk == Init /\ [][NextBulk]_vars

\* The settlement open on account a covers at least two items.
BulkPending(a) == IsSome(pending[a]) /\ Cardinality(Unwrap(pending[a]).items) >= 2

\* C27: a routed order of two royalty items from one seller returns after
\* exactly one call of purchase_multi_royal_listings, with one batch recorded
\* for both ids and one token issued; while that settlement is open the
\* class's rule is relaxed; and the settlement is closed only by a
\* multi_cleared on that account, with every item of the batch in the
\* declared recipient.
C27_BulkOrderOneSettlement ==
    /\ [][(last'.op = "router_return" /\ Len(routing.orders) >= 2) =>
             /\ Len(routing.calls) = 1
             /\ routing.calls[1].method = "purchase_multi_royal_listings"
             /\ Len(worktop_tokens) = Len(routing.entry.worktop_tokens) + 1
             /\ latest_bulk_transaction[routing.calls[1].address]
                   = Some([recipient |-> routing.account_recipient,
                           nfgids |-> routing.calls[1].nfgids])
             /\ BulkPending(routing.calls[1].address)]_vars
    /\ [](\A a \in Escrows : BulkPending(a) => depositable[RoyalClass] = AllowAll)
    /\ [][\A a \in Escrows :
             (BulkPending(a) /\ ~BulkPending(a)' /\ last'.op # "abort") =>
                /\ last'.op = "multi_cleared"
                /\ last'.acct = a
                /\ \A x \in Unwrap(pending[a]).items : loc[x] = Unwrap(pending[a]).dest]_vars

(***************************************************************************)
(* What a multi-item royalty purchase hands out (checked under             *)
(* SpecListing).                                                           *)
(***************************************************************************)
\* The items this step takes out of the vaults of account a.
Released(a) == {x \in Items : loc[x] = a /\ loc'[x] = Worktop}

\* The sum of the listing prices of a set of items of account a.
RECURSIVE PriceOfSet(_, _)
PriceOfSet(a, S) ==
    IF S = {} THEN 0
    ELSE LET x == CHOOSE x \in S : TRUE
         IN  Unwrap(listings[a][x]).price + PriceOfSet(a, S \ {x})

\* C30: a purchase_multi_royal_listings step releases exactly the items its
\* keys name, which are the items whose listings it removes, and is paid the
\* sum of the listing prices of exactly those items.
C30_ReleasedIsCharged ==
    [][last'.op = "purchase_multi_royal_listings" =>
          /\ Released(last'.acct) = Range(last'.nfgids)
          /\ {x \in Items : IsSome(listings[last'.acct][x]) /\ listings'[last'.acct][x] = None}
                = Released(last'.acct)
          /\ last'.amount = PriceOfSet(last'.acct, Released(last'.acct))]_vars

(***************************************************************************)
(* SpecLive: the life of a royalty-enforced item.  The owner of accA       *)
(* lists the items on either escrow account and may cancel; the buyer      *)
(* purchases them one at a time or in bulk with accB as the declared       *)
(* recipient, deposits what was bought there and hands the transient       *)
(* token back.  A buyer who has bought keeps going: a deposit of a         *)
(* purchased item in its recipient and a clear with the issued token       *)
(* happen whenever they stay possible.                                     *)
(***************************************************************************)
Recipient == "accB"

\* The item is for sale on account a.
ListedAt(a, x) == IsSome(listings[a][x]) /\ loc[x] = a

\* The item was bought from account a and that purchase is not yet cleared.
PendingTransfer(a, x) == IsSome(pending[a]) /\ x \in Unwrap(pending[a]).items

\* The positions on the worktop of the token issued for the purchase pending
\* on account a.
IssuedToken(a) == {i \in DOMAIN worktop_tokens : worktop_tokens[i] = Unwrap(pending[a])}

\* The buyer's step: a purchased item is deposited in the declared recipient.
deposit_purchased(a) ==
    /\ IsSome(pending[a])
    /\ \E x \in Unwrap(pending[a]).items : Deposit(Unwrap(pending[a]).dest, x)

\* The buyer's step: the closing call of the purchase pending on account a,
\* with one issued token.
clear_purchased(a) ==
    /\ IsSome(pending[a])
    /\ \E i \in IssuedToken(a) :
          \/ cleared(a, [resource |-> TransientToken, toks |-> {i}])
          \/ multi_cleared(a, [resource |-> TransientToken, toks |-> {i}])

\* The item is in the seller's hands: no open purchase has released it.
NotPurchased(x) == \A a \in Escrows : ~PendingTransfer(a, x)

NextLive ==
    \/ \E x \in RoyalItems : Withdraw("accA", x)
    \/ \E x \in RoyalItems : NotPurchased(x) /\ Deposit("accA", x)
    \/ EndTx
    \/ \E a \in Escrows, x \in RoyalItems :
          NotPurchased(x) /\ royal_list(a, x, Price, "XRD", {"mkt"})
    \/ \E a \in Escrows, x \in RoyalItems : cancel_royal_listing(a, x)
    \/ \E a \in Escrows, x \in RoyalItems :
          purchase_royal_listing(a, x, Price, "XRD", "mkt", Recipient)
    \/ \E a \in Escrows, xs \in {<<R1>>, <<R1, R2>>} :
          purchase_multi_royal_listings(a, xs, Len(xs) * Price, "XRD", Recipient, "mkt")
    \/ \E a \in Escrows : deposit_purchased(a)
    \/ \E a \in Escrows : clear_purchased(a)

BuyerFairness ==
    \A a \in Escrows : WF_vars(deposit_purchased(a)) /\ WF_vars(clear_purchased(a))

SpecLive == Init /\ [][NextLive]_vars /\ BuyerFairness

\* The purchase pending on account a is cleared: its token is back in the
\* vault and the rule of the class is restrictive again.
Cleared(a) ==
    /\ pending[a] = None
    /\ transient_tokens[a] >= 1
    /\ depositable[RoyalClass] = Restricted

\* C29: a listed item leaves its listing only into a pending transfer or, on
\* cancel, back to the seller's account; a pending transfer ends only
\* settled, the item in the declared recipient; and every pending transfer is
\* eventually cleared, the token back in the vault and the rule of the class
\* restrictive again.
C29_ItemLifecycle ==
    /\ [][\A a \in Escrows, x \in RoyalItems :
            /\ (ListedAt(a, x) /\ ~ListedAt(a, x)') =>
                   \/ PendingTransfer(a, x)'
                   \/ loc'[x] = my_account(a) /\ last'.op = "-"
            /\ (PendingTransfer(a, x) /\ ~PendingTransfer(a, x)') =>
                   /\ loc'[x] = Unwrap(pending[a]).dest
                   /\ Cleared(a)']_vars
    /\ \A a \in Escrows : IsSome(pending[a]) ~> Cleared(a)

(***************************************************************************)
(* The doors of the escrow vault (checked under SpecPurchase, where every  *)
(* listing of the account is made by royal_list).                          *)
(***************************************************************************)
\* C31: an item of the royalty-enforced collection that was listed through
\* royal_list leaves the vault for the worktop only in a royalty purchase:
\* the royalty is taken on the full payment, the transaction is none of the
\* account's listing transactions and the pending transfer is recorded; the
\* plain entry points never hand it out.
C31_RoyalItemLeavesByRoyaltyPurchase ==
    [][\A a \in Escrows, x \in RoyalItems :
          (loc[x] = a /\ IsSome(listings[a][x]) /\ loc'[x] = Worktop) =>
              /\ last'.op \in RoyalPurchaseOps
              /\ Some(last'.royalty) = royalty_of(last'.amount, last'.cur)
              /\ txhash \notin transactions[a]
              /\ PendingTransfer(a, x)']_vars

(***************************************************************************)
(* SpecPrice: one escrow account; its owner lists the items one by one or  *)
(* in batches, at any offered price, cancels, and changes the price of a   *)
(* listing to any decimal.                                                 *)
(***************************************************************************)
OfferedPrices == {0 - Price, 0, Price, 2 * Price}
PriceEntries == [nfgid : Items, price : OfferedPrices]

NextPrice ==
    \/ \E x \in Items : Withdraw("accA", x)
    \/ \E x \in Items : Deposit("accA", x)
    \/ EndTx
    \/ \E x \in Items, price \in OfferedPrices : royal_list("A", x, price, "XRD", {"mkt"})
    \/ \E x \in Items, price \in OfferedPrices : list("A", x, "XRD", price, {"mkt"})
    \/ \E entries \in Batches(PriceEntries), items \in SUBSET Items :
          royal_multi_list("A", entries, "XRD", {"mkt"}, items)
    \/ \E entries \in Batches(PriceEntries), items \in SUBSET Items :
          multi_list("A", entries, "XRD", {"mkt"}, items)
    \/ \E x \in Items : cancel_listing("A", x)
    \/ \E x \in Items : cancel_royal_listing("A", x)
    \/ \E x \in Items, price \in OfferedPrices : change_price("A", x, price)

SpecPrice == Init /\ [][NextPrice]_vars

\* C32: in every reachable state every listing an escrow account holds has a
\* price above zero.
C32_ListingPricePositive ==
    \A a \in Escrows, x \in Items : IsSome(listings[a][x]) => Unwrap(listings[a][x]).price > 0

(***************************************************************************)
(* The maximum rate over time (checked under SpecRates).                   *)
(***************************************************************************)
\* C33: no step raises the maximum royalty rate, whatever argument
\* lower_maximum_royalty_percentage accepts, locked or not.
C33_MaximumNeverIncreases ==
    [][royalty_config'.maximum_royalty_percent <= royalty_config.maximum_royalty_percent]_vars

(***************************************************************************)
(* SpecReplay: one escrow account sells the two royalty-enforced items.    *)
(* R1 is listed in the first transaction only; R2 may be listed in any     *)
(* transaction.  In the second transaction the listing of R1 is therefore  *)
(* one of an earlier transaction.                                          *)
(***************************************************************************)
NextReplay ==
    \/ \E x \in RoyalItems : Withdraw("accA", x)
    \/ \E x \in RoyalItems : Deposit("accA", x)
    \/ EndTx
    \/ txhash = 1 /\ royal_list("A", R1, Price, "XRD", {"mkt"})
    \/ royal_list("A", R2, Price, "XRD", {"mkt"})
    \/ \E entries \in Batches([nfgid : {R2}, price : {Price}]) :
          royal_multi_list("A", entries, "XRD", {"mkt"}, {R2})
    \/ \E x \in RoyalItems : cancel_royal_listing("A", x)
    \/ \E x \in RoyalItems : purchase_royal_listing("A", x, Price, "XRD", "mkt", "accA")
    \/ \E xs \in {<<R1>>, <<R2>>, <<R1, R2>>} :
          purchase_multi_royal_listings("A", xs, Len(xs) * Price, "XRD", "accA", "mkt")
    \/ \E t \in TokenBuckets : cleared("A", t)
    \/ \E t \in TokenBuckets : multi_cleared("A", t)

SpecReplay == Init /\ [][NextReplay]_vars

\* The account can issue a token and the behaviour has purchases left.
CanSettle(a) == transient_tokens[a] >= 1 /\ ncalls < MaxCalls

\* C34: the replay guard is per item.  In the transaction that lists R1 its
\* royalty purchase is blocked; in a later transaction the royalty purchase of
\* R1, still listed, succeeds, whatever else that transaction lists on the
\* account.
C34_ReplayGuardPerItem ==
    /\ txhash = 1 => ~ENABLED purchase_royal_listing("A", R1, Price, "XRD", "mkt", "accA")
    /\ (txhash > 1 /\ ListedAt("A", R1) /\ CanSettle("A")) =>
          ENABLED purchase_royal_listing("A", R1, Price, "XRD", "mkt", "accA")

(***************************************************************************)
(* SpecFee: one escrow account sells under any fee rate a credential's     *)
(* metadata can carry (a Decimal: negative, zero, a fraction, one, above   *)
(* one, or no metadata at all) and several royalty rates.  The items of    *)
(* the royalty-enforced collection are listed by royal_list, the plain     *)
(* item by list; buyers use any of the four purchases.                     *)
(***************************************************************************)
FeeRates == {None, Some(0 - (ONE \div 2)), Some(0), Some(ONE \div 50), Some(ONE \div 2),
             Some(ONE), Some(2 * ONE)}
FeeRoyaltyRates == {0, ONE \div 10, ONE \div 2, ONE}
FeePrices == {7, Price}

InitFee ==
    \E rate \in FeeRoyaltyRates, fee \in FeeRates : InitWorld(rate, fee, NoVaults)

NextFee ==
    \/ \E x \in {R1, P1} : Withdraw("accA", x)
    \/ \E x \in {R1, P1} : Deposit("accA", x)
    \/ EndTx
    \/ \E price \in FeePrices : royal_list("A", R1, price, "XRD", {"mkt"})
    \/ \E price \in FeePrices : list("A", P1, "XRD", price, {"mkt"})
    \/ \E amt \in FeePrices : purchase_royal_listing("A", R1, amt, "XRD", "mkt", "accA")
    \/ \E amt \in FeePrices : purchase_multi_royal_listings("A", <<R1>>, amt, "XRD", "accA", "mkt")
    \/ \E x \in {R1, P1}, amt \in FeePrices : purchase_listing("A", x, amt, "XRD", "mkt")
    \/ \E xs \in {<<P1>>, <<R1, P1>>}, amt \in FeePrices \cup {Price + 7, 2 * Price, 14} :
          multi_purchase_listing("A", xs, amt, "XRD", "mkt")
    \/ \E t \in TokenBuckets : cleared("A", t)
    \/ \E t \in TokenBuckets : multi_cleared("A", t)

SpecFee == InitFee /\ [][NextFee]_vars

\* What a purchase at `price` through `permission` would take as its fee: the
\* product with the credential's rate, cut to the currency's precision.
FeeDue(permission, price, cur) == RoundToZero(marketplace_fee_of(permission, price), cur)

\* C35: in every purchase that goes through, whatever the fee rate of the
\* credential, the fee is at least 0 and at most the price less the royalty,
\* the seller's proceeds are the non-negative rest, and royalty, fee and
\* proceeds add up to the payment; and where royalty plus fee exceed the
\* price no purchase of the listing can go through.
C35_FeeWithinRemainder ==
    /\ [][(ncalls' = ncalls + 1 /\ last'.op \in PurchaseOps) =>
            /\ 0 <= last'.fee
            /\ last'.fee <= last'.amount - last'.royalty
            /\ last'.proceeds = last'.amount - last'.royalty - last'.fee
            /\ last'.proceeds >= 0
            /\ Balance(royalty_vaults'[last'.cur]) - Balance(royalty_vaults[last'.cur])
                  = last'.royalty
            /\ revenue'[last'.acct][last'.cur] - revenue[last'.acct][last'.cur]
                  = last'.proceeds]_vars
    /\ [](\A x \in {R1, P1} :
            ListedAt("A", x) =>
                LET l == Unwrap(listings["A"][x])
                IN  /\ (x = R1 /\ Unwrap(royalty_of(l.price, l.currency))
                                    + FeeDue("mkt", l.price, l.currency) > l.price) =>
                          /\ ~ENABLED purchase_royal_listing("A", x, l.price, l.currency,
                                                             "mkt", "accA")
                          /\ ~ENABLED purchase_multi_royal_listings("A", <<x>>, l.price,
                                                                    l.currency, "accA", "mkt")
                    /\ FeeDue("mkt", l.price, l.currency) > l.price =>
                          ~ENABLED purchase_listing("A", x, l.price, l.currency, "mkt"))

\* A purchase went through whose fee took everything the royalty had left:
\* the seller received nothing.
C35_Witness ==
    /\ last.op \in PurchaseOps
    /\ FeeRate(last.permission) >= ONE \div 2
    /\ last.fee > 0
    /\ last.fee = last.amount - last.royalty
    /\ last.proceeds = 0

(***************************************************************************)
(* SpecPlainRoute: the router buys plain listings.  The marketplace key    *)
(* carries a fee rate of 2%, of 0, or no fee metadata; the owner of accA   *)
(* lists the plain item on either escrow account at either price, and a    *)
(* buyer sends the router an order for it with the payment of its price.   *)
(***************************************************************************)
PlainPrices == {5 * ONE, Price}
PlainRequests == {<< Order(a, P1, price) >> : a \in Escrows, price \in PlainPrices}

InitPlainRoute ==
    \E fee \in {None, Some(0), Some(ONE \div 50)} : InitWorld(ONE \div 10, fee, NoVaults)

NextPlainRoute ==
    \/ NotRouting /\ Withdraw("accA", P1)
    \/ \E h \in Holders : NotRouting /\ Deposit(h, P1)
    \/ NotRouting /\ EndTx
    \/ \E a \in Escrows, price \in PlainPrices :
          NotRouting /\ list(a, P1, "XRD", price, {"mkt"})
    \/ \E a \in Escrows : NotRouting /\ cancel_listing(a, P1)
    \/ \E orders \in PlainRequests :
          WorktopEmpty /\ multi_listing_purchase(orders, SumAmounts(orders), "XRD")
    \/ \E a \in Escrows : listing_group_call(a)
    \/ router_return
    \/ router_abort

SpecPlainRoute == InitPlainRoute /\ [][NextPlainRoute]_vars

\* The router is about to call account `address` with a single order that
\* names a listing of the account at its price and currency.
PlainOrderStands(address) ==
    /\ routing.phase = "running"
    /\ routing.method = "multi_listing_purchase"
    /\ address \in routing.todo
    /\ ncalls < MaxCalls
    /\ LET order_group == GroupOf(routing.orders, address)
       IN  /\ Len(order_group) = 1
           /\ ListedAt(address, order_group[1].nfgid)
           /\ order_group[1].nfgid.class = PlainClass
           /\ Unwrap(listings[address][order_group[1].nfgid]).price = order_group[1].amount
           /\ Unwrap(listings[address][order_group[1].nfgid]).currency = routing.currency
           /\ "mkt" \in Unwrap(listings[address][order_group[1].nfgid]).secondary_seller_permissions
           /\ CanTake(order_group[1].amount)

\* C36: a routed purchase of a plain listing goes through whether or not the
\* seller account returns a fee bucket: with a fee rate of 0 or no fee
\* metadata on the marketplace key, the router's call for a standing order
\* succeeds, the item is handed out, the seller is stored the full price and
\* no fee is accumulated.
C36_RoutedPlainPurchaseWithoutFee ==
    /\ [](\A address \in Escrows :
            (FeeRate("mkt") = 0 /\ PlainOrderStands(address)) =>
                ENABLED listing_group_call(address))
    /\ [][(FeeRate("mkt") = 0 /\ last'.op = "multi_purchase_listing") =>
            /\ last'.proceeds = last'.amount
            /\ revenue'[last'.acct][last'.cur] = revenue[last'.acct][last'.cur] + last'.amount
            /\ fee_vaults' = fee_vaults
            /\ \A i \in DOMAIN last'.nfgids : loc'[last'.nfgids[i]] = Worktop]_vars

(***************************************************************************)
(* SpecAgree: the two royalty purchases side by side.  One escrow account  *)
(* lists R1 at either price in either currency; the creator limits the     *)
(* buyers and the currencies and sets a minimum royalty of 1; buyers call  *)
(* purchase_royal_listing and purchase_multi_royal_listings on the one     *)
(* item, with either credential.                                           *)
(***************************************************************************)
AgreePrices == {5 * ONE, Price}

NextAgree ==
    \/ Withdraw("accA", R1)
    \/ Deposit("accA", R1)
    \/ EndTx
    \/ \E price \in AgreePrices, c \in Currencies : royal_list("A", R1, price, c, {"mkt"})
    \/ deny_all_buyers
    \/ add_permissioned_buyer("mkt")
    \/ restrict_currencies_true
    \/ add_permitted_currency("XRD")
    \/ enable_minimum_royalties
    \/ set_minimum_royalty_amount("XRD", ONE)
    \/ \E amt \in AgreePrices, c \in Currencies, p \in Credentials :
          purchase_royal_listing("A", R1, amt, c, p, "accA")
    \/ \E amt \in AgreePrices, c \in Currencies, p \in Credentials :
          purchase_multi_royal_listings("A", <<R1>>, amt, c, "accA", p)
    \/ \E t \in TokenBuckets : cleared("A", t)
    \/ \E t \in TokenBuckets : multi_cleared("A", t)

SpecAgree == Init /\ [][NextAgree]_vars

\* What the two paths are compared on after a purchase: the royalty credit,
\* the fee bucket, the seller's proceeds, the listings, the vault content, the
\* gate and the issued token.
Outcome ==
    [royalty_vaults |-> royalty_vaults, revenue |-> revenue, listings |-> listings,
     loc |-> loc, depositable |-> depositable, transient_tokens |-> transient_tokens,
     worktop_tokens |-> worktop_tokens, royalty |-> last.royalty, fee |-> last.fee,
     fee_bucket |-> last.fee_bucket, proceeds |-> last.proceeds]

\* C37: on a single item the two royalty purchases agree.  In every state
\* either both go through or both fail, for every payment, currency and
\* credential; and what purchase_royal_listing did, the multi purchase of the
\* one-item list would have done from the same state: same royalty credit,
\* fee bucket, proceeds, listing removal, vault content, gate and issued
\* token.  The single purchase writes the single pending record only, the
\* multi purchase the bulk record only.
C37_SingleAndMultiAgree ==
    /\ [](\A amt \in AgreePrices, c \in Currencies, p \in Credentials :
            ENABLED purchase_royal_listing("A", R1, amt, c, p, "accA")
                <=> ENABLED purchase_multi_royal_listings("A", <<R1>>, amt, c, "accA", p))
    /\ [][last'.op = "purchase_royal_listing" =>
            \A done \in {Outcome'}, call \in {last'} :
                ENABLED (/\ purchase_multi_royal_listings(call.acct, call.nfgids, call.amount,
                                                          call.cur, "accA", call.permission)
                         /\ Outcome' = done)]_vars
    /\ [][/\ (last'.op = "purchase_royal_listing") =>
                (/\ IsSome(latest_transaction'[last'.acct])
                 /\ latest_bulk_transaction' = latest_bulk_transaction)
          /\ (last'.op = "purchase_multi_royal_listings") =>
                (/\ IsSome(latest_bulk_transaction'[last'.acct])
                 /\ latest_transaction' = latest_transaction)]_vars

\* A single purchase went through under a configuration that limits buyers
\* and currencies and asks for a minimum royalty.
C37_Witness ==
    /\ last.op = "purchase_royal_listing"
    /\ royalty_config.limit_buyers
    /\ royalty_config.limit_currencies
    /\ royalty_config.minimum_royalties
    /\ last.royalty >= ONE
    /\ last.fee > 0

(***************************************************************************)
(* pay_royalty in a currency without a minimum (checked under SpecConfig). *)
(***************************************************************************)
MinimumPayAmounts == {0, 7, Price, 10 * Price}

\* Minimum royalties are enforced: both switches are on.
MinimumsEnforced == royalty_config.minimum_royalties /\ royalty_config.limit_currencies

====
